---- MODULE Spec2Model ----
(***************************************************************************)
(* A model of the gb-emu emulator core.                                    *)
(*                                                                         *)
(*  - PpuSpec:  the picture processing unit of src/src/ppu.rs, advanced by *)
(*              update(cycles) calls of varying size.                      *)
(*  - CoreSpec: the orchestrator of src/lib/core/src/emulator_core.rs,    *)
(*              advanced by run_single_step calls: process_next,           *)
(*              process_next_opcode, update_components.                    *)
(*  - FrameSpec: one run_frame call on the core as constructed.            *)
(*  - StatSpec, LcdcSpec: Ppu::update between writes to the registers.     *)
(*  - SpriteSpec: the OAM scan and the sprite pass of src/src/ppu.rs.      *)
(*  - ApuSpec:  the frame sequencer of src/lib/core/src/apu/apu.rs.        *)
(*  - ChannelSpec: the channels of src/lib/core/src/apu/channels/channel.rs.*)
(*  - NoiseSpec: the LFSR of src/lib/core/src/apu/channels/noise.rs.       *)
(*  - AudioSpec: the downsampling of apu/audio_output.rs.                  *)
(*  - SerialSpec: the serial port of src/lib/core/src/serial.rs.           *)
(*  - OpcodeSpec: the opcode tables of src/src/opcodes/mod.rs.             *)
(*  - BootSpec: initialize of src/lib/core/src/emulator_core.rs.           *)
(*  - BuilderSpec: the Builder of lib/support and lib/core gameboy.rs.     *)
(*  - MemDataSpec: the memory data of lib/core/src/mmu/memory_data.rs.     *)
(*  - StageSpec: process_next_opcode of emulator_core.rs, stage by stage.  *)
(*  - NoiseClockSpec: the clocking of the LFSR of noise.rs at several periods.*)
(*  - SpriteArithSpec: the 8-bit arithmetic of ppu.rs on one sprite.       *)
(***************************************************************************)
EXTENDS Integers, Sequences, FiniteSets, TLC

VARIABLES
    \* ---- Ppu (src/src/ppu.rs, struct Ppu) ----
    ppu_clock,              \* Ppu::clock
    ppu_mode,               \* Ppu::mode
    ly,                     \* Ppu::ly
    current_line_pixel,     \* Ppu::current_line_pixel
    current_line_cycles,    \* Ppu::current_line_cycles
    ppu_panicked,           \* TRUE once next_ly ran into unreachable!()
    window_enabled,         \* Ppu::current_scanline.window_enabled
    window_line,            \* Ppu::window_line
    lcd_stat,               \* the byte at MEMORY_LOCATION_LCD_STATUS
    \* ---- registers the Ppu only reads ----
    lyc,                    \* the byte at MEMORY_LOCATION_LYC
    lcdc,                   \* the byte at MEMORY_LOCATION_LCD_CONTROL
    wx,                     \* the byte at MEMORY_LOCATION_WX
    wy,                     \* the byte at MEMORY_LOCATION_WY
    \* ---- observations of the last Ppu::update call ----
    ppu_requested,          \* interrupts requested through mem.request_interrupt
    ppu_frame_state,        \* the FrameState returned
    ppu_last_cycles,        \* the cycles argument
    ppu_drawn,              \* the pixels written into the LCD buffer
    stat_entered,           \* the STAT byte enter_mode read (-1: enter_mode was not called)
    window_counted,         \* TRUE if next_ly incremented window_line
    \* ---- observations across Ppu::update calls ----
    since_vblank,           \* cycles passed to update since the last VBlank request (-1: none yet)
    vblank_gap,             \* cycles passed between the last two VBlank requests (-1: fewer than two)
    vblank_rem,             \* ppu_clock left by the call that made the last VBlank request
    vblank_rem_prev,        \* ppu_clock left by the call that made the one before
    \* ---- sprites (src/src/ppu.rs) ----
    oam,                    \* the 40 entries of the object attribute memory
    scanline,               \* the ScanlineData returned by do_oam_scan_for_line
    sprite_read,            \* the last read_scanline_sprite_pixel call: arguments and result
    sprite_pc,              \* "idle", "scanned" or "read"
    \* ---- Apu (src/lib/core/src/apu/apu.rs) ----
    apu_on,                 \* ApuState::apu_on
    fs_clock,               \* ApuState::fs_clock
    fs_next_step,           \* FrameSequencer::fs_next_step
    fs_ticks,               \* the frame sequencer steps of the last Apu::update call
    apu_cycles,             \* the cycles passed to Apu::update while the APU was on
    fs_steps,               \* the frame sequencer steps performed so far
    fs_n,                   \* the number of the next step, counted without wrapping
    \* ---- the channels of the Apu (src/lib/core/src/apu/channels/channel.rs) ----
    channel_enabled,        \* Channel::channel_enabled of each channel
    dac_enabled,            \* the DAC of each channel is enabled
    ch_last,                \* the last call on a channel: the function, the channel, the actions applied
    \* ---- NoiseGenerator (src/lib/core/src/apu/channels/noise.rs) ----
    lfsr,                   \* NoiseGenerator::lfsr
    lfsr_width,             \* NoiseGenerator::lfsr_width
    frequency_divider,      \* NoiseGenerator::frequency_divider
    frequency_shift,        \* NoiseGenerator::frequency_shift
    frequency_timer,        \* NoiseGenerator::frequency_timer
    noise_clock,            \* what is followed of the clocking of the LFSR
    lfsr_clocks,            \* the LFSR iterations of the last update call: the register before and after, the width
    lfsr_count,             \* the LFSR iterations made so far
    \* ---- Mixer registers and resets (src/lib/core/src/apu/apu.rs) ----
    nr50,                   \* the value the mixer holds for NR50
    nr51,                   \* the value the mixer holds for NR51
    mixer_write,            \* the last write to NR50 or NR51: the register and the value
    apu_reset,              \* the units reset by the last write to NR52
    \* ---- AudioOutput (src/lib/core/src/apu/audio_output.rs) ----
    sample_rate,            \* sample_rate
    time_passed,            \* time_passed
    next_sample_time,       \* next_sample_time
    buffer_insert_pos,      \* buffer_insert_pos
    buffer,                 \* the samples stored since the buffer was last full, by their numbers
    sender,                 \* none, or a sender whose receiver is open or dropped
    cycles_pushed,          \* the cycles pushed since construction
    samples_done,           \* the samples completed since construction
    sent_count,             \* the buffers sent to the receiver
    last_sent,              \* the last buffer sent
    \* ---- SerialPort (src/lib/core/src/serial.rs) ----
    serial_clock,           \* clock
    sc,                     \* the byte at MEMORY_LOCATION_SC
    sb,                     \* the byte at MEMORY_LOCATION_SB
    output_queue,           \* output_queue
    output_queue_enabled,   \* output_queue_enabled
    serial_irq,             \* the Serial interrupts requested by the last call
    since_write,            \* the cycles passed since SC was written with bit 7 set
    taken,                  \* the result of the last take_next or take_output
    \* ---- Opcode tables (src/src/opcodes/mod.rs) ----
    op_table,               \* the table of the opcode run last: base or extended
    op_code,                \* the opcode run last
    op_result,              \* what its proc did: returned or panicked
    \* ---- EmulatorCore::initialize (src/lib/core/src/emulator_core.rs) ----
    cfg_device,             \* device_config.device
    cfg_emulation,          \* device_config.emulation
    has_boot_rom,           \* mem.has_boot_rom()
    header_checksum,        \* the byte of the cartridge header at 0x014D
    title_checksum,         \* title_checksum of setup_initial_values
    cpu,                    \* the registers of the Cpu
    initialized,            \* initialize was called
    \* ---- Builder (src/lib/support/src/gameboy.rs, src/lib/core/src/gameboy.rs) ----
    b_boot_rom,             \* boot_rom is set
    b_cartridge,            \* none, or the GameBoyColorSupport of the cartridge set
    b_device_type,          \* none, or the device type set
    b_result,               \* the result of finish
    \* ---- MemoryData (src/lib/core/src/mmu/memory_data.rs) ----
    md_data,                \* the bytes of a MemoryDataDynamic
    md_result,              \* the result of the last read_from_bytes
    md_fixed,               \* the result of the last MemoryDataFixedSize try_from
    \* ---- process_next_opcode, stage by stage ----
    sg_pc,                  \* idle, or proc while an instruction is executed
    sg_shape,               \* the instruction fetched
    sg_stage,               \* the stage of the OpCodeContext
    sg_total_step,          \* total_step_cycles
    sg_io,                  \* the value of an I/O register that a peripheral updates
    sg_begin,               \* the value of the register when the instruction began
    sg_written,             \* the value the instruction wrote last, if any
    sg_read,                \* the value the instruction read last, if any
    sg_reads,               \* the reads the instruction made
    \* ---- the 8-bit arithmetic on one sprite (src/src/ppu.rs) ----
    sprite_arith,           \* the last scan or read of one sprite: the arguments and the u8 values computed
    \* ---- writes to NR52 (src/lib/core/src/apu/apu.rs) ----
    nr52_write,             \* the last write to NR52: bit 7 of the value, apu_on before it, and a bit that every write flips
    \* ---- the loop of the last AudioOutput::push ----
    push_obs,               \* the passes of the loop, the samples completed, whether a pass began with time_passed above next_sample_time, whether a completed sample left next_sample_time at or below time_passed, the largest counter value
    \* ---- EmulatorCore (src/lib/core/src/emulator_core.rs) ----
    total_cycles,           \* EmulatorCore::total_cycles
    cpu_running,            \* Cpu::is_running()
    reg_if,                 \* InterruptRegisters: the requested interrupts (IF)
    pending,                \* the pending signals of each peripheral
    clocks,                 \* the sum of the cycles passed to each component's update
    \* ---- run_frame ----
    rf_pc,                  \* "idle", "loop" (inside the loop of run_frame) or "done" (returned)
    results_cycles,         \* results.cycles of run_frame
    results_events,         \* results.events of run_frame
    \* ---- observations of the last run_single_step call ----
    obs

ppuVars == << ppu_clock, ppu_mode, ly, current_line_pixel, current_line_cycles,
              ppu_panicked, ppu_requested, ppu_frame_state, ppu_last_cycles,
              since_vblank, vblank_gap, vblank_rem, vblank_rem_prev,
              window_enabled, window_line, lcd_stat,
              ppu_drawn, stat_entered, window_counted >>

regVars == << lyc, lcdc, wx, wy >>

spriteVars == << oam, scanline, sprite_read, sprite_pc >>

apuVars == << apu_on, fs_clock, fs_next_step, fs_ticks, apu_cycles, fs_steps, fs_n >>

chanVars == << channel_enabled, dac_enabled, ch_last >>

noiseVars == << lfsr, lfsr_width, frequency_divider, frequency_shift, frequency_timer, lfsr_clocks, lfsr_count, noise_clock >>

mixerVars == << nr50, nr51, mixer_write, apu_reset >>

audioVars == << sample_rate, time_passed, next_sample_time, buffer_insert_pos, buffer, sender, cycles_pushed, samples_done, sent_count, last_sent >>

serialVars == << serial_clock, sc, sb, output_queue, output_queue_enabled, serial_irq, since_write, taken >>

opcodeVars == << op_table, op_code, op_result >>

bootVars == << cfg_device, cfg_emulation, has_boot_rom, header_checksum, title_checksum, cpu, initialized >>

builderVars == << b_boot_rom, b_cartridge, b_device_type, b_result >>

memVars == << md_data, md_result, md_fixed >>

stageVars == << sg_pc, sg_shape, sg_stage, sg_total_step, sg_io, sg_begin, sg_written, sg_read, sg_reads >>

arithVars == << sprite_arith >>

nr52Vars == << nr52_write >>

pushVars == << push_obs >>

coreVars == << total_cycles, cpu_running, reg_if, pending, clocks >>

frameVars == << rf_pc, results_cycles, results_events >>

vars == << ppuVars, regVars, spriteVars, apuVars, chanVars, noiseVars, mixerVars, audioVars, serialVars, opcodeVars, bootVars, builderVars, memVars, stageVars, arithVars, nr52Vars, pushVars, coreVars, frameVars, obs >>

----------------------------------------------------------------------------
(* Bounds of the model *)

\* the largest cycle count of one Ppu::update call, in M-cycles (4 T-cycles)
MaxStepM == 2

\* the largest cycle count of one opcode, in M-cycles
MaxOpcodeM == 3

\* the largest number of StageDone results of one opcode
MaxStages == 1

\* run_single_step is called while total_cycles is below this
MaxTotalCycles == 8

----------------------------------------------------------------------------
(* Constants of src/src/ppu.rs *)

SCREEN_W == 160
SCREEN_H == 144
CPU_CYCLES_PER_LINE == 456
CPU_CYCLES_PER_FRAME == 70224
OAM_SCAN_CYCLES == 80
CYCLES_PER_PIXEL == 2
LAST_LINE == 153

LCD_CONTROL_BIT_BG_WINDOW_ENABLED == 0
LCD_CONTROL_BIT_SPRITE_SIZE == 2
LCD_CONTROL_BIT_WINDOW_ENABLED == 5
LCD_CONTROL_BIT_LCD_ENABLED == 7
LCD_STATUS_BIT_FLAG_COINCIDENCE == 2
LCD_STATUS_BIT_ENABLE_IRQ_MODE_0 == 3
LCD_STATUS_BIT_ENABLE_IRQ_MODE_1 == 4
LCD_STATUS_BIT_ENABLE_IRQ_MODE_2 == 5
LCD_STATUS_BIT_ENABLE_IRQ_LYC_EQ_LY == 6

Min(a, b) == IF a < b THEN a ELSE b

\* the cycle counts handed to Ppu::update: 0 and the multiples of one M-cycle
StepSizes == {0} \cup {4 * k : k \in 1..MaxStepM}

----------------------------------------------------------------------------
(* Ppu, src/src/ppu.rs *)

\* process_oam_scan: the condition to leave the OAM scan
OamScanElapsed(clk) == clk > OAM_SCAN_CYCLES

\* process_draw_line: the number of pixels drawn by one call
PixelsToUpdateOfClock(clk, pixel) == clk \div 2
PixelsToUpdate(clk, pixel) == Min(clk \div 2, SCREEN_W - pixel)

\* process_draw_line: pixel_color = (palette >> (pixel << 1)) & 0x03
PixelColor(palette, pixel) == (palette \div 2 ^ (pixel * 2)) % 4

\* LcdBuffer::set_pixel: the index written and the value stored
SetPixelIndex(x, y) == x + y * SCREEN_W
SetPixelValue(value) == value % 4

\* process_draw_line: the clock consumed by drawing n pixels
DrawCycles(n) == n * CYCLES_PER_PIXEL

\* process_hblank: the clock still to pass in the current line
HBlankRemainingAfterOam(line_cycles) == CPU_CYCLES_PER_LINE - OAM_SCAN_CYCLES - line_cycles
HBlankRemaining(line_cycles) == CPU_CYCLES_PER_LINE - line_cycles

\* next_ly: the line following line l
NextLineLateWrap(l) == IF l = LAST_LINE + 1 THEN 0 ELSE l + 1
NextLine(l) == IF l = LAST_LINE THEN 0 ELSE l + 1

\* next_ly: the mode entered for line l ("same": remains in VBlank,
\* "unreachable": the unreachable!() arm)
ModeForLineLateVBlank(l) ==
    IF l >= 0 /\ l <= 144 THEN "OamScan"
    ELSE IF l >= 145 /\ l <= 153 THEN "VBlank"
    ELSE "unreachable"
ModeForLineReenterVBlank(l) ==
    IF l >= 0 /\ l <= 143 THEN "OamScan"
    ELSE IF l >= 144 /\ l <= 153 THEN "VBlank"
    ELSE "unreachable"
ModeForLine(l) ==
    IF l >= 0 /\ l <= 143 THEN "OamScan"
    ELSE IF l = 144 THEN "VBlank"
    ELSE IF l >= 145 /\ l <= 153 THEN "same"
    ELSE "unreachable"

\* utils::get_bit
GetBit(byte, bit) == (byte \div (2 ^ bit)) % 2 = 1

\* utils::change_bit
ChangeBit(byte, bit, value) ==
    IF value = GetBit(byte, bit) THEN byte
    ELSE IF value THEN byte + 2 ^ bit ELSE byte - 2 ^ bit

\* enum Mode: the numeric code of a mode
ModeCode(m) ==
    CASE m = "HBlank" -> 0 [] m = "VBlank" -> 1 [] m = "OamScan" -> 2 [] m = "DrawLine" -> 3

\* enter_mode: the STAT byte written (lcd_stat & 0b_1111_1100 | mode)
EnterModeStatKeepLow(stat, m) == stat
EnterModeStat(stat, m) == (stat \div 4) * 4 + ModeCode(m)

\* enter_mode: the interrupts requested on entering mode m, stat being the
\* STAT byte enter_mode has written
EnterModeRequestsAnyMode(m, stat) ==
    (IF GetBit(stat, LCD_STATUS_BIT_ENABLE_IRQ_MODE_0) \/ GetBit(stat, LCD_STATUS_BIT_ENABLE_IRQ_MODE_1)
            \/ GetBit(stat, LCD_STATUS_BIT_ENABLE_IRQ_MODE_2)
     THEN {"LcdStat"} ELSE {})
        \cup (IF m = "VBlank" THEN {"VBlank"} ELSE {})
EnterModeRequests(m, stat) ==
    CASE m = "HBlank"  -> IF GetBit(stat, LCD_STATUS_BIT_ENABLE_IRQ_MODE_0) THEN {"LcdStat"} ELSE {}
      [] m = "VBlank"  -> (IF GetBit(stat, LCD_STATUS_BIT_ENABLE_IRQ_MODE_1) THEN {"LcdStat"} ELSE {})
                             \cup {"VBlank"}
      [] m = "OamScan" -> IF GetBit(stat, LCD_STATUS_BIT_ENABLE_IRQ_MODE_2) THEN {"LcdStat"} ELSE {}
      [] OTHER         -> {}

\* next_ly: the STAT byte written after the comparison of the new line with LYC
CoincidenceStat(stat, l, c) == ChangeBit(stat, LCD_STATUS_BIT_FLAG_COINCIDENCE, l = c)

\* next_ly: the interrupt requested by the comparison of the new line with LYC
CoincidenceRequests(stat, l, c) ==
    IF l = c /\ GetBit(stat, LCD_STATUS_BIT_ENABLE_IRQ_LYC_EQ_LY) THEN {"LcdStat"} ELSE {}

\* process_draw_line: whether drawing the pixels pixel .. pixel + n - 1 of
\* line l switches the scanline to the window
WindowReached(l, pixel, n) ==
    /\ GetBit(lcdc, LCD_CONTROL_BIT_BG_WINDOW_ENABLED)
    /\ GetBit(lcdc, LCD_CONTROL_BIT_WINDOW_ENABLED)
    /\ \E p \in pixel .. (pixel + n - 1) : p + 7 >= wx
    /\ wy < SCREEN_H
    /\ wy <= l

\* next_ly: whether the window line counter is incremented
WindowLineCounted(l) == window_enabled

\* the result of one of the process_* functions: the fields of the Ppu, the
\* STAT byte, and what the call did
PpuResult(clk, m, l, pixel, line_cycles, req, fs, panic, x) ==
    [clock |-> clk, mode |-> m, ly |-> l, pixel |-> pixel,
     line_cycles |-> line_cycles, requested |-> req, frame |-> fs, panicked |-> panic,
     stat |-> x.stat, stat_entered |-> x.stat_entered,
     window_enabled |-> x.window_enabled, window_line |-> x.window_line,
     window_counted |-> x.window_counted, drawn |-> x.drawn]

\* a call that leaves the STAT byte and the window state as they are
Untouched ==
    [stat |-> lcd_stat, stat_entered |-> -1, window_enabled |-> window_enabled,
     window_line |-> window_line, window_counted |-> FALSE, drawn |-> 0]

\* next_ly, entered with the clock already reduced
NextLy(clk, m, l, pixel, line_cycles) ==
    LET nl == NextLine(l)
        nm == ModeForLine(nl)
        counted == WindowLineCounted(l)
        wl == IF counted THEN (window_line + 1) % 256 ELSE window_line
        stat1 == CoincidenceStat(lcd_stat, nl, lyc)
        req1 == CoincidenceRequests(stat1, nl, lyc)
        stat2 == IF nm \in {"same", "unreachable"} THEN stat1 ELSE EnterModeStat(stat1, nm)
        x == [stat |-> stat2,
              stat_entered |-> IF nm \in {"same", "unreachable"} THEN -1 ELSE stat1,
              window_enabled |-> window_enabled,
              window_line |-> IF nl = 0 /\ nm # "unreachable" THEN 0 ELSE wl,
              window_counted |-> counted,
              drawn |-> 0]
    IN  IF nm = "unreachable"
        THEN PpuResult(clk, m, nl, pixel, line_cycles, req1, "Processing", TRUE, x)
        ELSE PpuResult(clk,
                       IF nm = "same" THEN m ELSE nm,
                       nl, pixel, line_cycles,
                       IF nm = "same" THEN req1 ELSE req1 \cup EnterModeRequests(nm, stat2),
                       IF nl = 0 THEN "FrameCompleted" ELSE "Processing",
                       FALSE, x)

\* process_oam_scan
ProcessOamScan(clk, m, l, pixel, line_cycles) ==
    IF OamScanElapsed(clk)
    THEN LET stat == EnterModeStat(lcd_stat, "DrawLine")
         IN  PpuResult(clk - OAM_SCAN_CYCLES, "DrawLine", l, 0, OAM_SCAN_CYCLES,
                       EnterModeRequests("DrawLine", stat), "Processing", FALSE,
                       [Untouched EXCEPT !.stat = stat, !.stat_entered = lcd_stat,
                                         !.window_enabled = FALSE])
    ELSE PpuResult(clk, m, l, pixel, line_cycles, {}, "Processing", FALSE, Untouched)

\* process_draw_line
ProcessDrawLine(clk, m, l, pixel, line_cycles) ==
    LET n == PixelsToUpdate(clk, pixel)
        cycles == DrawCycles(n)
        we == window_enabled \/ WindowReached(l, pixel, n)
        stat == EnterModeStat(lcd_stat, "HBlank")
    IN  IF n = 0
        THEN PpuResult(clk, m, l, pixel, line_cycles, {}, "Processing", FALSE, Untouched)
        ELSE IF pixel + n >= SCREEN_W
        THEN PpuResult(clk - cycles, "HBlank", l, pixel + n, line_cycles + cycles,
                       EnterModeRequests("HBlank", stat), "Processing", FALSE,
                       [Untouched EXCEPT !.stat = stat, !.stat_entered = lcd_stat,
                                         !.window_enabled = we, !.drawn = n])
        ELSE PpuResult(clk - cycles, m, l, pixel + n, line_cycles + cycles,
                       {}, "Processing", FALSE,
                       [Untouched EXCEPT !.window_enabled = we, !.drawn = n])

\* process_hblank
ProcessHBlank(clk, m, l, pixel, line_cycles) ==
    LET remaining_cycles == HBlankRemaining(line_cycles)
    IN  IF clk >= remaining_cycles
        THEN NextLy(clk - remaining_cycles, m, l, pixel, line_cycles)
        ELSE PpuResult(clk, m, l, pixel, line_cycles, {}, "Processing", FALSE, Untouched)

\* process_vblank
ProcessVBlank(clk, m, l, pixel, line_cycles) ==
    IF clk >= CPU_CYCLES_PER_LINE
    THEN NextLy(clk - CPU_CYCLES_PER_LINE, m, l, pixel, line_cycles)
    ELSE PpuResult(clk, m, l, pixel, line_cycles, {}, "Processing", FALSE, Untouched)

\* Ppu::update: add the cycles to the clock and run the function of the current mode once
PpuUpdateResult(cycles) ==
    LET clk == ppu_clock + cycles
    IN  CASE ppu_mode = "OamScan"  -> ProcessOamScan(clk, ppu_mode, ly, current_line_pixel, current_line_cycles)
          [] ppu_mode = "DrawLine" -> ProcessDrawLine(clk, ppu_mode, ly, current_line_pixel, current_line_cycles)
          [] ppu_mode = "HBlank"   -> ProcessHBlank(clk, ppu_mode, ly, current_line_pixel, current_line_cycles)
          [] ppu_mode = "VBlank"   -> ProcessVBlank(clk, ppu_mode, ly, current_line_pixel, current_line_cycles)

\* Ppu::new
PpuInit ==
    /\ ppu_clock = 0
    /\ ppu_mode = "OamScan"
    /\ ly = 0
    /\ current_line_pixel = 0
    /\ current_line_cycles = 0
    /\ ppu_panicked = FALSE
    /\ ppu_requested = {}
    /\ ppu_frame_state = "Processing"
    /\ ppu_last_cycles = 0
    /\ since_vblank = -1
    /\ vblank_gap = -1
    /\ vblank_rem = 0
    /\ vblank_rem_prev = 0
    /\ window_enabled = FALSE
    /\ window_line = 0
    /\ ppu_drawn = 0
    /\ stat_entered = -1
    /\ window_counted = FALSE

\* the registers of a memory nothing was written to
RegInit ==
    /\ lcd_stat = 0
    /\ lyc = 0
    /\ lcdc = 0
    /\ wx = 0
    /\ wy = 0

\* one call of Ppu::update(cycles)
PpuUpdate(cycles) ==
    /\ ~ppu_panicked
    /\ \E r \in {PpuUpdateResult(cycles)} :
       LET vb == "VBlank" \in r.requested
           passed == IF since_vblank = -1 THEN -1 ELSE since_vblank + cycles
       IN  /\ ppu_clock' = r.clock
           /\ ppu_mode' = r.mode
           /\ ly' = r.ly
           /\ current_line_pixel' = r.pixel
           /\ current_line_cycles' = r.line_cycles
           /\ ppu_panicked' = r.panicked
           /\ ppu_requested' = r.requested
           /\ ppu_frame_state' = r.frame
           /\ ppu_last_cycles' = cycles
           /\ lcd_stat' = r.stat
           /\ stat_entered' = r.stat_entered
           /\ window_enabled' = r.window_enabled
           /\ window_line' = r.window_line
           /\ window_counted' = r.window_counted
           /\ ppu_drawn' = r.drawn
           /\ since_vblank' = IF vb THEN 0 ELSE passed
           /\ vblank_gap' = IF vb THEN passed ELSE vblank_gap
           /\ vblank_rem' = IF vb THEN r.clock ELSE vblank_rem
           /\ vblank_rem_prev' = IF vb THEN vblank_rem ELSE vblank_rem_prev

PpuNext == \E cycles \in StepSizes : PpuUpdate(cycles) /\ UNCHANGED << regVars, coreVars, frameVars, obs, spriteVars, apuVars, chanVars, noiseVars, mixerVars, audioVars, serialVars, opcodeVars, bootVars, builderVars, memVars, stageVars, arithVars, nr52Vars, pushVars >>

----------------------------------------------------------------------------
(* Writes of the CPU to the registers the Ppu reads *)

\* the cycle count handed to Ppu::update between register writes
RegStepSizes == {4 * MaxStepM}

\* the interrupt enable bits 3..6 written to STAT
StatEnableMasks == {0, 8, 16, 32, 64, 120}

\* the values written to LYC
LycValues == {0, 144, 153}

\* a write to MEMORY_LOCATION_LCD_STATUS: bits 0..2 are read-only
WriteLcdStat ==
    /\ \E v \in StatEnableMasks : lcd_stat' = (lcd_stat % 8) + v
    /\ UNCHANGED << ppu_clock, ppu_mode, ly, current_line_pixel, current_line_cycles,
                    ppu_panicked, ppu_requested, ppu_frame_state, ppu_last_cycles,
                    since_vblank, vblank_gap, vblank_rem, vblank_rem_prev,
                    window_enabled, window_line, ppu_drawn, stat_entered, window_counted >>
    /\ UNCHANGED << regVars, coreVars, frameVars, obs, spriteVars, apuVars, chanVars, noiseVars, mixerVars, audioVars, serialVars, opcodeVars, bootVars, builderVars, memVars, stageVars, arithVars, nr52Vars, pushVars >>

\* a write to MEMORY_LOCATION_LYC
WriteLyc ==
    /\ \E v \in LycValues : lyc' = v
    /\ UNCHANGED << lcdc, wx, wy >>
    /\ UNCHANGED << ppuVars, coreVars, frameVars, obs, spriteVars, apuVars, chanVars, noiseVars, mixerVars, audioVars, serialVars, opcodeVars, bootVars, builderVars, memVars, stageVars, arithVars, nr52Vars, pushVars >>

\* the positions written to WX and WY
WxValues == {7}
WyValues == {0, 143}

\* a write to MEMORY_LOCATION_LCD_CONTROL that switches the LCD on or off
WriteLcdcEnable ==
    /\ \E v \in BOOLEAN : lcdc' = ChangeBit(lcdc, LCD_CONTROL_BIT_LCD_ENABLED, v)
    /\ UNCHANGED << lyc, wx, wy >>
    /\ UNCHANGED << ppuVars, coreVars, frameVars, obs, spriteVars, apuVars, chanVars, noiseVars, mixerVars, audioVars, serialVars, opcodeVars, bootVars, builderVars, memVars, stageVars, arithVars, nr52Vars, pushVars >>

\* a write to MEMORY_LOCATION_LCD_CONTROL that switches the background and the
\* window on or off, made while line 0 is processed
WriteLcdcLayers ==
    /\ ly = 0
    /\ \E v \in BOOLEAN :
          lcdc' = ChangeBit(ChangeBit(lcdc, LCD_CONTROL_BIT_BG_WINDOW_ENABLED, v),
                            LCD_CONTROL_BIT_WINDOW_ENABLED, v)
    /\ UNCHANGED << lyc, wx, wy >>
    /\ UNCHANGED << ppuVars, coreVars, frameVars, obs, spriteVars, apuVars, chanVars, noiseVars, mixerVars, audioVars, serialVars, opcodeVars, bootVars, builderVars, memVars, stageVars, arithVars, nr52Vars, pushVars >>

\* writes to MEMORY_LOCATION_WX and MEMORY_LOCATION_WY, made while line 0 is
\* processed
WriteWindow ==
    /\ ly = 0
    /\ \E x \in WxValues, y \in WyValues : wx' = x /\ wy' = y
    /\ UNCHANGED << lyc, lcdc >>
    /\ UNCHANGED << ppuVars, coreVars, frameVars, obs, spriteVars, apuVars, chanVars, noiseVars, mixerVars, audioVars, serialVars, opcodeVars, bootVars, builderVars, memVars, stageVars, arithVars, nr52Vars, pushVars >>

StatUpdate ==
    \E cycles \in RegStepSizes :
        PpuUpdate(cycles) /\ UNCHANGED << regVars, coreVars, frameVars, obs, spriteVars, apuVars, chanVars, noiseVars, mixerVars, audioVars, serialVars, opcodeVars, bootVars, builderVars, memVars, stageVars, arithVars, nr52Vars, pushVars >>

----------------------------------------------------------------------------
(* Sprites: the OAM scan and the sprite pass of src/src/ppu.rs *)

\* the length of the longest run of equal entries in the OAM
MaxRun == 5

\* do_oam_scan_for_line: the entries of the OAM and the sprites a line keeps
OAM_ENTRIES == 40
MAX_SPRITES == 10

SPRITE_W == 8

Sprite(y, x, t, f) == [pos_y |-> y, pos_x |-> x, tile |-> t, flags |-> f]

\* Sprite::empty, and an OAM entry nothing was written to
EmptySprite == Sprite(0, 0, 0, 0)

\* Sprite::is_flip_x, is_flip_y, get_palette, is_bg_priority
IsFlipX(sp) == GetBit(sp.flags, 5)
IsFlipY(sp) == GetBit(sp.flags, 6)
GetPalette(sp) == IF GetBit(sp.flags, 4) THEN 1 ELSE 0
IsBgPriority(sp) == GetBit(sp.flags, 7)

\* sprite_h of do_oam_scan_for_line and read_scanline_sprite_pixel
SpriteH(c) == IF GetBit(c, LCD_CONTROL_BIT_SPRITE_SIZE) THEN 16 ELSE 8

\* sprite_mask of read_scanline_sprite_pixel
SpriteMask(c) == IF GetBit(c, LCD_CONTROL_BIT_SPRITE_SIZE) THEN 254 ELSE 255

\* do_oam_scan_for_line with the last row of a sprite one line too low
SpriteOnLineInclusiveEnd(sp, line, h) ==
    /\ sp.pos_x > 0
    /\ line + 16 >= sp.pos_y
    /\ line + 16 <= sp.pos_y + h

\* do_oam_scan_for_line: the condition under which an entry is taken.  The sum
\* pos_y + sprite_h is evaluated only if line + 16 >= pos_y, so it stays below
\* 256 for every line the scan is made for.
SpriteOnLine(sp, line, h) ==
    /\ sp.pos_x > 0
    /\ line + 16 >= sp.pos_y
    /\ line + 16 < sp.pos_y + h

\* do_oam_scan_for_line: the loop over the OAM entries, from entry i on
RECURSIVE OamScanFrom(_, _, _, _, _)
OamScanFrom(mem, i, found, line, h) ==
    IF i > OAM_ENTRIES \/ Len(found) >= MAX_SPRITES
    THEN found
    ELSE IF SpriteOnLine(mem[i], line, h)
    THEN OamScanFrom(mem, i + 1, Append(found, mem[i]), line, h)
    ELSE OamScanFrom(mem, i + 1, found, line, h)

\* a sprite put into a list sorted by pos_x, behind the sprites of equal pos_x
InsertByX(sorted, sp) ==
    LET before == Cardinality({k \in 1..Len(sorted) : sorted[k].pos_x <= sp.pos_x})
    IN  SubSeq(sorted, 1, before) \o << sp >> \o SubSeq(sorted, before + 1, Len(sorted))

\* sort_by on pos_x: a stable sort
RECURSIVE SortByX(_)
SortByX(found) ==
    IF found = << >> THEN << >>
    ELSE InsertByX(SortByX(SubSeq(found, 1, Len(found) - 1)), found[Len(found)])

\* do_oam_scan_for_line
DoOamScanForLine(mem, line, c) ==
    [line |-> line, sprites |-> SortByX(OamScanFrom(mem, 1, << >>, line, SpriteH(c)))]

\* the two bytes of each row of a tile in the tile data at 0x8000: tiles of
\* colour 0, of colour 1, with colour 2 left and colour 1 right, of colour 2
TileRowBytes(t) ==
    CASE t % 4 = 0 -> << 0, 0 >>
      [] t % 4 = 1 -> << 255, 0 >>
      [] t % 4 = 2 -> << 15, 240 >>
      [] t % 4 = 3 -> << 0, 255 >>

\* the byte at 0x8000 + offset
VramByte(offset) == TileRowBytes(offset \div 16)[(offset % 2) + 1]

\* read_sprite_pixel_from_address, the address counted from 0x8000
ReadSpritePixelFromAddress(offset, x, y) ==
    LET sprite_line_address == offset + y * 2
        byte0 == VramByte(sprite_line_address)
        byte1 == VramByte(sprite_line_address + 1)
    IN  (IF GetBit(byte0, 7 - x) THEN 1 ELSE 0) + (IF GetBit(byte1, 7 - x) THEN 2 ELSE 0)

\* read_sprite_pixel with TileSet::H8000
ReadSpritePixel(tile, x, y) == ReadSpritePixelFromAddress(tile * 16, x, y)

\* the u8 value tile & sprite_mask
TileAndMask(tile, mask) == IF mask = 254 THEN (tile \div 2) * 2 ELSE tile

\* read_scanline_sprite_pixel: whether the sprite overlaps the pixel
SpriteCoversPixel(sp, x) == ~((x + 8) < sp.pos_x \/ x >= sp.pos_x)

\* read_scanline_sprite_pixel: the row of the sprite read for the line
SpritePixelY(sp, line, h) ==
    LET y == (line + 16) - sp.pos_y
    IN  IF IsFlipY(sp) THEN h - y - 1 ELSE y

\* read_scanline_sprite_pixel: the column of the sprite read for the pixel
SpritePixelX(sp, x) ==
    LET px == (x + 8) - sp.pos_x
    IN  IF IsFlipX(sp) THEN SPRITE_W - px - 1 ELSE px

\* read_scanline_sprite_pixel: the colour read for a sprite that overlaps the pixel
SpriteColour(sp, line, x, c) ==
    ReadSpritePixel(TileAndMask(sp.tile, SpriteMask(c)),
                    SpritePixelX(sp, x), SpritePixelY(sp, line, SpriteH(c)))

\* read_scanline_sprite_pixel with the background priority ignored
SpriteSkippedIgnoringPriority(sp, pixel, pixel_background) == pixel = 0

\* read_scanline_sprite_pixel: the pixel of a sprite is skipped
SpriteSkipped(sp, pixel, pixel_background) ==
    pixel = 0 \/ (IsBgPriority(sp) /\ pixel_background # 0)

\* read_scanline_sprite_pixel returned None
NoPixel == [found |-> FALSE, sprite_index |-> 0, color_index |-> 0, palette_index |-> 0, row |-> 0]

\* read_scanline_sprite_pixel: the loop over the sprites of the scanline, from
\* sprite k on; besides the SpritePixelData the result tells which sprite of
\* the list was taken and which of its rows was read
RECURSIVE SpritePixelFrom(_, _, _, _, _)
SpritePixelFrom(k, sl, x, pixel_background, c) ==
    IF k > Len(sl.sprites) THEN NoPixel
    ELSE LET sp == sl.sprites[k]
         IN  IF ~SpriteCoversPixel(sp, x)
             THEN SpritePixelFrom(k + 1, sl, x, pixel_background, c)
             ELSE LET pixel == SpriteColour(sp, sl.line, x, c)
                  IN  IF SpriteSkipped(sp, pixel, pixel_background)
                      THEN SpritePixelFrom(k + 1, sl, x, pixel_background, c)
                      ELSE [found |-> TRUE, sprite_index |-> k, color_index |-> pixel,
                            palette_index |-> GetPalette(sp),
                            row |-> SpritePixelY(sp, sl.line, SpriteH(c))]

ReadScanlineSpritePixel(sl, x, pixel_background, c) ==
    SpritePixelFrom(1, sl, x, pixel_background, c)

\* the OAM entries written by the program: sprites on line 0 at x 8, 4 and 12
\* (opaque, transparent, behind the background, flipped), a sprite at x 0, at
\* y 0, at y 160, at x 168, a sprite that reaches line 0 only when 16 rows
\* high, and a sprite on line 143 at the right border
SpriteKinds ==
    << Sprite(16, 8, 1, 0),
       Sprite(16, 8, 0, 16),
       Sprite(16, 4, 2, 128),
       Sprite(16, 12, 2, 32),
       Sprite(16, 0, 1, 0),
       Sprite(0, 8, 1, 0),
       Sprite(160, 8, 1, 0),
       Sprite(16, 168, 1, 0),
       Sprite(8, 8, 3, 0),
       Sprite(159, 167, 1, 64) >>

\* a run of equal entries is absent, a single entry, or MaxRun entries
RunLengths == {0, 1, MaxRun}

\* an OAM that begins with three runs of equal entries; the rest was never written
OamOfRuns(a, i, b, j, c, k) ==
    [n \in 1..OAM_ENTRIES |->
        IF n <= i THEN SpriteKinds[a]
        ELSE IF n <= i + j THEN SpriteKinds[b]
        ELSE IF n <= i + j + k THEN SpriteKinds[c]
        ELSE EmptySprite]

OamContents ==
    {OamOfRuns(a, i, b, j, c, k) :
        a \in 1..Len(SpriteKinds), b \in 1..Len(SpriteKinds), c \in 1..Len(SpriteKinds),
        i \in RunLengths, j \in RunLengths, k \in RunLengths}

\* the lines scanned and the pixels and background colours read
ScanLines == {0, 143}
PixelColumns == {0, 4, 8, 159}
BackgroundColours == {0, 1}

NoRead == [x |-> 0, pixel_background |-> 0, result |-> NoPixel]

\* no sprite function was called; the OAM was never written
SpriteIdle ==
    /\ oam = [n \in 1..OAM_ENTRIES |-> EmptySprite]
    /\ scanline = [line |-> 0, sprites |-> << >>]
    /\ sprite_read = NoRead
    /\ sprite_pc = "idle"

\* a call of do_oam_scan_for_line
OamScan ==
    /\ sprite_pc = "idle"
    /\ \E line \in ScanLines : scanline' = DoOamScanForLine(oam, line, lcdc)
    /\ sprite_pc' = "scanned"
    /\ UNCHANGED << oam, sprite_read >>
    /\ UNCHANGED << ppuVars, regVars, apuVars, coreVars, frameVars, obs, chanVars, noiseVars, mixerVars, audioVars, serialVars, opcodeVars, bootVars, builderVars, memVars, stageVars, arithVars, nr52Vars, pushVars >>

\* a call of read_scanline_sprite_pixel on the scanline of the scan
ReadPixel ==
    /\ sprite_pc = "scanned"
    /\ \E x \in PixelColumns, bg \in BackgroundColours :
          sprite_read' = [x |-> x, pixel_background |-> bg,
                          result |-> ReadScanlineSpritePixel(scanline, x, bg, lcdc)]
    /\ sprite_pc' = "read"
    /\ UNCHANGED << oam, scanline >>
    /\ UNCHANGED << ppuVars, regVars, apuVars, coreVars, frameVars, obs, chanVars, noiseVars, mixerVars, audioVars, serialVars, opcodeVars, bootVars, builderVars, memVars, stageVars, arithVars, nr52Vars, pushVars >>

----------------------------------------------------------------------------
(* The frame sequencer of the Apu, src/lib/core/src/apu/apu.rs *)

\* the most cycles passed to Apu::update while the APU is on
MaxApuCycles == 80000

APU_UPDATE_PERIOD == 8192

\* FrameSequencer::increment with a counter that stops at 255
FsIncrementSaturating(step) == IF step = 255 THEN 255 ELSE step + 1

\* FrameSequencer::increment: wrapping_add(1) on a u8
FsIncrement(step) == (step + 1) % 256

\* FrameSequencer::is_length_timer_active
IsLengthTimerActive(step) == step % 2 = 0

\* FrameSequencer::is_freq_sweep_active
IsFreqSweepActive(step) == step % 4 = 2

\* FrameSequencer::is_volume_envelope_active
IsVolumeEnvelopeActive(step) == step % 8 = 7

\* next_frame_sequencer_step: the components ticked by the step, and the
\* number n of the step counted without wrapping
FsTicks(step, n) ==
    [n |-> n,
     length |-> IsLengthTimerActive(step),
     sweep |-> IsFreqSweepActive(step),
     envelope |-> IsVolumeEnvelopeActive(step)]

\* update_frame_sequencer with an if in the place of the while
RECURSIVE FsLoopOnce(_, _, _)
FsLoopOnce(clk, step, ticks) ==
    IF clk >= APU_UPDATE_PERIOD /\ ticks = << >>
    THEN FsLoopOnce(clk - APU_UPDATE_PERIOD, FsIncrement(step),
                    Append(ticks, FsTicks(step, fs_n + Len(ticks))))
    ELSE [clock |-> clk, step |-> step, ticks |-> ticks]

\* update_frame_sequencer: the while loop
RECURSIVE FsLoop(_, _, _)
FsLoop(clk, step, ticks) ==
    IF clk >= APU_UPDATE_PERIOD
    THEN FsLoop(clk - APU_UPDATE_PERIOD, FsIncrement(step),
                Append(ticks, FsTicks(step, fs_n + Len(ticks))))
    ELSE [clock |-> clk, step |-> step, ticks |-> ticks]

\* update_frame_sequencer; the sum stays far below 2^64
UpdateFrameSequencer(cycles) == FsLoop(fs_clock + cycles, fs_next_step, << >>)

\* the state after Apu::new
ApuInit ==
    /\ apu_on = TRUE
    /\ fs_clock = 0
    /\ fs_next_step = 0
    /\ fs_ticks = << >>
    /\ apu_cycles = 0
    /\ fs_steps = 0
    /\ fs_n = 0

\* the cycles passed to Apu::update
ApuStepSizes == {1000, 3000, 20000}

\* the frame sequencer counter from which the steps are followed: as
\* constructed, and after 250 steps
FsStartSteps == {0, 250}

\* Apu::update(cycles)
ApuUpdate ==
    /\ \E cycles \in ApuStepSizes :
          /\ apu_cycles + cycles <= MaxApuCycles
          /\ IF apu_on
             THEN \E r \in {UpdateFrameSequencer(cycles)} :
                    /\ fs_clock' = r.clock
                    /\ fs_next_step' = r.step
                    /\ fs_ticks' = r.ticks
                    /\ fs_steps' = fs_steps + Len(r.ticks)
                    /\ fs_n' = fs_n + Len(r.ticks)
                    /\ apu_cycles' = apu_cycles + cycles
             ELSE /\ fs_ticks' = << >>
                  /\ UNCHANGED << fs_clock, fs_next_step, fs_steps, fs_n, apu_cycles >>
    /\ UNCHANGED apu_on
    /\ UNCHANGED << ppuVars, regVars, spriteVars, coreVars, frameVars, obs, chanVars, noiseVars, mixerVars, audioVars, serialVars, opcodeVars, bootVars, builderVars, memVars, stageVars, arithVars, nr52Vars, pushVars >>

\* Apu::reset: the units whose reset is called
ApuResetUnits == {"mixer", "ch1", "ch2", "ch3", "ch4"}

\* Mixer::reset: the value of NR50 and NR51 after a reset
MixerResetValue == 0

\* the values written to NR50 and NR51
Nr50Values == {0, 119}
Nr51Values == {0, 255}

\* on_write of NR50 and NR51 with the test of apu_on left out
MixerWriteAlways(on, old, value) == value

\* on_write of NR50 and NR51: the value the mixer holds after the write
MixerWrite(on, old, value) == IF on THEN value ELSE old

\* the mixer after Apu::new
MixerInit ==
    /\ nr50 = 0
    /\ nr51 = 0
    /\ mixer_write = [reg |-> "none", value |-> 0]
    /\ apu_reset = {}

\* on_write of NR52 with the power_on and the reset made by every write
PowerChangesAlways(on, enabled) == TRUE

\* on_write of NR52: self.state.apu_on != enabled
PowerChanges(on, enabled) == on # enabled

\* no write to NR52 yet
Nr52Init == nr52_write = [enabled |-> TRUE, was_on |-> TRUE, flip |-> FALSE]

\* on_write of MEMORY_LOCATION_APU_NR52
WriteNr52 ==
    /\ \E enabled \in BOOLEAN :
          /\ nr52_write' = [enabled |-> enabled, was_on |-> apu_on, flip |-> ~nr52_write.flip]
          /\ IF PowerChanges(apu_on, enabled)
             THEN /\ apu_on' = enabled
                  /\ IF enabled
                     THEN /\ fs_next_step' = 0 /\ fs_n' = 0
                          /\ apu_reset' = {}
                          /\ UNCHANGED << nr50, nr51 >>
                     ELSE /\ UNCHANGED << fs_next_step, fs_n >>
                          /\ apu_reset' = ApuResetUnits
                          /\ nr50' = MixerResetValue /\ nr51' = MixerResetValue
             ELSE /\ UNCHANGED << apu_on, fs_next_step, fs_n >>
                  /\ apu_reset' = {}
                  /\ UNCHANGED << nr50, nr51 >>
    /\ UNCHANGED mixer_write
    /\ fs_ticks' = << >>
    /\ UNCHANGED << fs_clock, apu_cycles, fs_steps >>
    /\ UNCHANGED << ppuVars, regVars, spriteVars, coreVars, frameVars, obs, chanVars, noiseVars, audioVars, serialVars, opcodeVars, bootVars, builderVars, memVars, stageVars, arithVars, pushVars >>

\* on_write of MEMORY_LOCATION_APU_NR50
WriteNr50 ==
    /\ \E value \in Nr50Values :
          /\ nr50' = MixerWrite(apu_on, nr50, value)
          /\ mixer_write' = [reg |-> "NR50", value |-> value]
    /\ UNCHANGED << nr51, apu_reset >>
    /\ UNCHANGED apuVars
    /\ UNCHANGED << ppuVars, regVars, spriteVars, coreVars, frameVars, obs, chanVars, noiseVars, audioVars, serialVars, opcodeVars, bootVars, builderVars, memVars, stageVars, arithVars, nr52Vars, pushVars >>

\* on_write of MEMORY_LOCATION_APU_NR51
WriteNr51 ==
    /\ \E value \in Nr51Values :
          /\ nr51' = MixerWrite(apu_on, nr51, value)
          /\ mixer_write' = [reg |-> "NR51", value |-> value]
    /\ UNCHANGED << nr50, apu_reset >>
    /\ UNCHANGED apuVars
    /\ UNCHANGED << ppuVars, regVars, spriteVars, coreVars, frameVars, obs, chanVars, noiseVars, audioVars, serialVars, opcodeVars, bootVars, builderVars, memVars, stageVars, arithVars, nr52Vars, pushVars >>

----------------------------------------------------------------------------
(* The channels of the Apu, src/lib/core/src/apu/channels/channel.rs *)

\* the four channels of the Apu: Ch1Pulse1, Ch2Pulse2, Ch3Wave, Ch4Noise
Channels == 1..4

\* flags! TriggerAction
TriggerActions == {"None", "EnableDac", "DisableDac", "DisableChannel"}

\* for_each_component: the components of a channel by its FEATURE_ parameters
\* (Channel1..Channel4 of apu.rs)
Components(c) ==
    CASE c = 1 -> {"length_timer", "freq_sweep", "vol_envelope", "pulse"}
      [] c = 2 -> {"length_timer", "vol_envelope", "pulse"}
      [] c = 3 -> {"length_timer", "wave"}
      [] c = 4 -> {"length_timer", "vol_envelope", "noise"}

\* what on_register_changed and on_trigger_event of a component return: the
\* NoiseGenerator returns default_on_register_changed and
\* default_on_trigger_event, any other component any TriggerAction
ComponentActions(k) == IF k = "noise" THEN {"None"} ELSE TriggerActions

\* for_each_component: the union of the actions the components return
ActionSets(c) ==
    {{f[k] : k \in Components(c)} :
        f \in {g \in [Components(c) -> TriggerActions] :
                  \A k \in Components(c) : g[k] \in ComponentActions(k)}}

\* apply_actions: the actions applied
ActionsApplied(actions) ==
    IF "DisableDac" \in actions THEN actions \cup {"DisableChannel"} ELSE actions

\* apply_actions: the DAC
DacAfter(dac, actions) ==
    IF "DisableDac" \in actions THEN FALSE
    ELSE IF "EnableDac" \in actions THEN TRUE
    ELSE dac

\* apply_actions: channel_enabled
EnabledAfter(enabled, actions) ==
    IF "DisableChannel" \in ActionsApplied(actions) THEN FALSE ELSE enabled

\* the state after Channel::new for each channel; the DAC of a new channel is
\* enabled
ChannelInit ==
    /\ channel_enabled = [c \in Channels |-> TRUE]
    /\ dac_enabled = [c \in Channels |-> TRUE]
    /\ ch_last = [op |-> "new", channel |-> 0, applied |-> {}]

\* apply_actions on channel c
ApplyActions(c, enabled, actions, op) ==
    /\ dac_enabled' = [dac_enabled EXCEPT ![c] = DacAfter(dac_enabled[c], actions)]
    /\ channel_enabled' = [channel_enabled EXCEPT ![c] = EnabledAfter(enabled, actions)]
    /\ ch_last' = [op |-> op, channel |-> c, applied |-> ActionsApplied(actions)]

\* Channel::fire_register_changed
FireRegisterChanged ==
    /\ \E c \in Channels : \E actions \in ActionSets(c) :
          ApplyActions(c, channel_enabled[c], actions, "register_changed")
    /\ UNCHANGED << ppuVars, regVars, spriteVars, apuVars, coreVars, frameVars, obs, noiseVars, mixerVars, audioVars, serialVars, opcodeVars, bootVars, builderVars, memVars, stageVars, arithVars, nr52Vars, pushVars >>

\* Channel::fire_trigger_event
FireTriggerEvent ==
    /\ \E c \in Channels : \E actions \in ActionSets(c) :
          ApplyActions(c, TRUE, actions, "trigger")
    /\ UNCHANGED << ppuVars, regVars, spriteVars, apuVars, coreVars, frameVars, obs, noiseVars, mixerVars, audioVars, serialVars, opcodeVars, bootVars, builderVars, memVars, stageVars, arithVars, nr52Vars, pushVars >>

\* Channel::tick_length_timer; every channel of the Apu has a length timer
TickLengthTimer ==
    /\ \E c \in Channels : \E action \in TriggerActions :
          ApplyActions(c, channel_enabled[c], {action}, "tick_length_timer")
    /\ UNCHANGED << ppuVars, regVars, spriteVars, apuVars, coreVars, frameVars, obs, noiseVars, mixerVars, audioVars, serialVars, opcodeVars, bootVars, builderVars, memVars, stageVars, arithVars, nr52Vars, pushVars >>

\* Channel::tick_freq_sweep: the sweep of channel 1 returns DisableChannel,
\* FrequencyChanged or neither; the other channels have no sweep
TickFreqSweep ==
    /\ \E c \in Channels : \E result \in {"DisableChannel", "FrequencyChanged", "Unchanged"} :
          /\ channel_enabled' =
                IF "freq_sweep" \in Components(c) /\ result = "DisableChannel"
                THEN [channel_enabled EXCEPT ![c] = FALSE]
                ELSE channel_enabled
          /\ ch_last' = [op |-> "tick_freq_sweep", channel |-> c,
                         applied |-> IF "freq_sweep" \in Components(c) THEN {result} ELSE {}]
    /\ UNCHANGED dac_enabled
    /\ UNCHANGED << ppuVars, regVars, spriteVars, apuVars, coreVars, frameVars, obs, noiseVars, mixerVars, audioVars, serialVars, opcodeVars, bootVars, builderVars, memVars, stageVars, arithVars, nr52Vars, pushVars >>

----------------------------------------------------------------------------
(* The noise generator of channel 4, src/lib/core/src/apu/channels/noise.rs *)

\* the most LFSR iterations followed
MaxLfsrClocks == 14
MaxQueue == 2
MaxClockSteps == 5
MaxMemLen == 3
MaxAudioSamples == 2100
MaxAudioCycles == 18000000

\* the u16 value a << n
Shl16(a, n) == (a * 2 ^ n) % 65536

\* the u16 value a | b, b having the single bit n set or being 0
OrBit(a, b, n) == IF b # 0 /\ ~GetBit(a, n) THEN a + b ELSE a

\* update: insert_bit = (lfsr ^ (lfsr >> 1) ^ 1) & 0x01
InsertBit(reg) == IF GetBit(reg, 0) = GetBit(reg, 1) THEN 1 ELSE 0

\* update: one iteration of the LFSR
LfsrStep(reg, width) == OrBit(reg, Shl16(InsertBit(reg), width), width) \div 2

\* reset_timer
ResetTimer(divider, shift) == divider * 2 ^ shift

\* update: the while loop; the state after it, the LFSR iterations made and
\* the passes of the loop
RECURSIVE NoiseUpdateLoop(_, _, _, _, _)
NoiseUpdateLoop(remaining, timer, reg, steps, passes) ==
    IF remaining > 0
    THEN LET run_cycles == IF timer < remaining THEN timer ELSE remaining
             t == timer - run_cycles
         IN  IF t = 0
             THEN NoiseUpdateLoop(remaining - run_cycles,
                                  ResetTimer(frequency_divider, frequency_shift),
                                  LfsrStep(reg, lfsr_width),
                                  Append(steps, [old |-> reg, new |-> LfsrStep(reg, lfsr_width),
                                                  width |-> lfsr_width]),
                                  passes + 1)
             ELSE NoiseUpdateLoop(remaining - run_cycles, t, reg, steps, passes + 1)
    ELSE [timer |-> timer, lfsr |-> reg, clocks |-> steps, passes |-> passes]

\* what is followed of the clocking of the LFSR: the value of NR43 written
\* last, whether the channel was triggered and NR43 written since, the period
\* set by the trigger, the cycles passed to update and the LFSR iterations
\* since the trigger, and the cycles, LFSR iterations and loop passes of the
\* last update
NoClock ==
    [nr3 |-> 0, triggered |-> FALSE, rewritten |-> FALSE, period |-> 0,
     cycles |-> 0, steps |-> 0, last_cycles |-> 0, last_steps |-> 0, last_passes |-> 0]

\* the cycles and the LFSR iterations are counted from a trigger up to the
\* next write to NR43
Followed == noise_clock.triggered /\ ~noise_clock.rewritten

\* NoiseGenerator::new
NoiseInit ==
    /\ lfsr = 0
    /\ lfsr_width = 15
    /\ frequency_divider = 8
    /\ frequency_shift = 0
    /\ frequency_timer = 0
    /\ lfsr_clocks = << >>
    /\ lfsr_count = 0
    /\ noise_clock = NoClock

\* the cycles passed to NoiseGenerator::update
NoiseStepSizes == {8, 20}
ClockStepSizes == {3, 20}

\* the values written to NR43: 15 bits and 7 bits, divider code 0, shift 0
Nr43Values == {0, 8}

\* the values written to NR43 that set the periods 8, 16 and 32
ClockNr43Values == {0, 1, 17}

\* on_register_changed: the divider of a divider code
DividerOfCodeShifted(divider_code) == divider_code * 16
DividerOfCode(divider_code) == IF divider_code = 0 THEN 8 ELSE divider_code * 16

\* NoiseGenerator::update(cycles)
NoiseUpdateWith(sizes, most, follow) ==
    /\ \E cycles \in sizes :
          \E r \in {NoiseUpdateLoop(cycles, frequency_timer, lfsr, << >>, 0)} :
             /\ lfsr_count + Len(r.clocks) <= most
             /\ frequency_timer' = r.timer
             /\ lfsr' = r.lfsr
             /\ lfsr_clocks' = r.clocks
             /\ lfsr_count' = lfsr_count + Len(r.clocks)
             /\ noise_clock' =
                    IF follow
                    THEN [noise_clock EXCEPT !.cycles = IF Followed THEN @ + cycles ELSE @,
                                             !.steps = IF Followed THEN @ + Len(r.clocks) ELSE @,
                                             !.last_cycles = cycles,
                                             !.last_steps = Len(r.clocks),
                                             !.last_passes = r.passes]
                    ELSE noise_clock
    /\ UNCHANGED << lfsr_width, frequency_divider, frequency_shift >>
    /\ UNCHANGED << ppuVars, regVars, spriteVars, apuVars, chanVars, coreVars, frameVars, obs, mixerVars, audioVars, serialVars, opcodeVars, bootVars, builderVars, memVars, stageVars, arithVars, nr52Vars, pushVars >>

NoiseUpdate == NoiseUpdateWith(NoiseStepSizes, MaxLfsrClocks, FALSE)

\* NoiseGenerator::on_register_changed(3, ..) after a write to NR43
WriteNr43With(values, follow) ==
    /\ \E nr3 \in values :
          /\ frequency_shift' = (nr3 \div 16) % 16
          /\ frequency_divider' = DividerOfCode(nr3 % 8)
          /\ lfsr_width' = IF GetBit(nr3, 3) THEN 7 ELSE 15
          /\ noise_clock' =
                IF follow
                THEN [noise_clock EXCEPT !.nr3 = nr3, !.rewritten = noise_clock.triggered,
                                         !.period = 0, !.cycles = 0, !.steps = 0]
                ELSE noise_clock
    /\ lfsr_clocks' = << >>
    /\ UNCHANGED << lfsr, frequency_timer, lfsr_count >>
    /\ UNCHANGED << ppuVars, regVars, spriteVars, apuVars, chanVars, coreVars, frameVars, obs, mixerVars, audioVars, serialVars, opcodeVars, bootVars, builderVars, memVars, stageVars, arithVars, nr52Vars, pushVars >>

WriteNr43 == WriteNr43With(Nr43Values, FALSE)

\* NoiseGenerator::on_trigger_event
NoiseTriggerWith(follow) ==
    /\ frequency_timer' = ResetTimer(frequency_divider, frequency_shift)
    /\ lfsr' = 0
    /\ lfsr_clocks' = << >>
    /\ noise_clock' =
          IF follow
          THEN [noise_clock EXCEPT !.triggered = TRUE, !.rewritten = FALSE,
                                   !.period = ResetTimer(frequency_divider, frequency_shift),
                                   !.cycles = 0, !.steps = 0,
                                   !.last_cycles = 0, !.last_steps = 0,
                                   !.last_passes = 0]
          ELSE noise_clock
    /\ UNCHANGED << lfsr_width, frequency_divider, frequency_shift, lfsr_count >>
    /\ UNCHANGED << ppuVars, regVars, spriteVars, apuVars, chanVars, coreVars, frameVars, obs, mixerVars, audioVars, serialVars, opcodeVars, bootVars, builderVars, memVars, stageVars, arithVars, nr52Vars, pushVars >>

NoiseTrigger == NoiseTriggerWith(FALSE)

\* the same calls with the clocking followed
ClockUpdate == NoiseUpdateWith(ClockStepSizes, MaxClockSteps, TRUE)
ClockWriteNr43 == WriteNr43With(ClockNr43Values, TRUE)
ClockTrigger == NoiseTriggerWith(TRUE)

----------------------------------------------------------------------------
(* ------------------------------------------------------------------ *)
(* AudioOutput (src/lib/core/src/apu/audio_output.rs) *)

SAMPLE_BUFFER_SIZE == 1024
DEFAULT_SAMPLE_RATE == 48000

\* CPU_CLOCK_SPEED of cpu.rs: the T-cycles of one second
CPU_CLOCK_SPEED == 4194304

RECURSIVE Gcd(_, _)
Gcd(a, b) == IF b = 0 THEN a ELSE Gcd(b, a % b)

\* a * rate / CPU_CLOCK_SPEED of the 64-bit arithmetic of push; the fraction
\* is reduced first so that the product stays within the integers of TLC
TimesRateByClock(a, rate) ==
    (a * (rate \div Gcd(CPU_CLOCK_SPEED, rate))) \div (CPU_CLOCK_SPEED \div Gcd(CPU_CLOCK_SPEED, rate))

\* n * CPU_CLOCK_SPEED / rate of the 64-bit arithmetic of push
TimesClockByRate(n, rate) ==
    (n * (CPU_CLOCK_SPEED \div Gcd(CPU_CLOCK_SPEED, rate))) \div (rate \div Gcd(CPU_CLOCK_SPEED, rate))

\* push: next_sample_time after the sample due at nst was completed
NextSampleTime(nst, rate) == TimesClockByRate(TimesRateByClock(nst + 1, rate) + 1, rate)

\* finish_sample with the buffer taken as full one sample late
BufferFullLate(pos) == pos > SAMPLE_BUFFER_SIZE

\* finish_sample: the test for the end of the buffer
BufferFull(pos) == pos >= SAMPLE_BUFFER_SIZE

\* finish_sample, on the record of the fields of AudioOutput and the
\* observations; the sample stored is the number of the sample, and the
\* buffer is kept as the slots written since it was last full, the slots
\* from buffer_insert_pos on being overwritten before they are sent
FinishSample(st) ==
    LET stored == [st EXCEPT !.buffer = SubSeq(st.buffer, 1, st.pos) \o << st.done + 1 >>,
                             !.done = st.done + 1,
                             !.pos = st.pos + 1]
    IN  IF BufferFull(stored.pos)
        THEN IF stored.sender = "open"
             THEN [stored EXCEPT !.sent = stored.sent + 1, !.last = stored.buffer,
                                 !.buffer = << >>, !.pos = 0]
             ELSE [stored EXCEPT !.sender = "none", !.buffer = << >>, !.pos = 0]
        ELSE stored

\* push without the wrap
WrapDueNever(nst) == FALSE

\* push: wrap after a second has passed
WrapDue(nst) == nst > CPU_CLOCK_SPEED

\* what is followed of the loop of one push
NoPushObs == [passes |-> 0, samples |-> 0, underflow |-> FALSE, stalled |-> FALSE, most |-> 0]

Max(a, b) == IF a > b THEN a ELSE b

\* the loop of push
RECURSIVE PushLoop(_, _)
PushLoop(remaining_cycles, st) ==
    IF remaining_cycles > 0
    THEN LET time_to_next_sample == st.nst - st.tp
             run_cycles == IF remaining_cycles < time_to_next_sample
                           THEN remaining_cycles ELSE time_to_next_sample
             tp1 == st.tp + run_cycles
             seen == [st.obs EXCEPT !.passes = @ + 1,
                                    !.underflow = @ \/ st.nst < st.tp,
                                    !.most = Max(@, Max(tp1, st.nst))]
         IN  IF tp1 >= st.nst
             THEN LET fin == FinishSample(st)
                      wrap == WrapDue(st.nst)
                      nst1 == IF wrap THEN st.nst - CPU_CLOCK_SPEED ELSE st.nst
                      tp2 == IF wrap THEN tp1 - CPU_CLOCK_SPEED ELSE tp1
                      nst2 == NextSampleTime(nst1, st.rate)
                  IN  PushLoop(remaining_cycles - run_cycles,
                               [fin EXCEPT !.tp = tp2, !.nst = nst2,
                                           !.obs = [seen EXCEPT !.samples = @ + 1,
                                                                !.stalled = @ \/ nst2 <= tp2,
                                                                !.most = Max(@, nst2)]])
             ELSE PushLoop(remaining_cycles - run_cycles, [st EXCEPT !.tp = tp1, !.obs = seen])
    ELSE st

PushObsInit == push_obs = NoPushObs

\* AudioOutput::new
AudioInit ==
    /\ sample_rate = DEFAULT_SAMPLE_RATE
    /\ time_passed = 0
    /\ next_sample_time = 0
    /\ buffer_insert_pos = 0
    /\ buffer = << >>
    /\ sender = "none"
    /\ cycles_pushed = 0
    /\ samples_done = 0
    /\ sent_count = 0
    /\ last_sent = << >>

\* the sample rates asked of open_channel
AudioRates == {3, 500, DEFAULT_SAMPLE_RATE}

\* the cycles of one push: some sixty samples at the most
PushCycles(rate) == IF rate > 500 THEN {2501, 5002} ELSE {249999, 499998}

\* AudioOutput::push
AudioPush ==
    /\ samples_done < MaxAudioSamples
    /\ cycles_pushed < MaxAudioCycles
    /\ \E cycles \in PushCycles(sample_rate) :
         \E st \in {PushLoop(cycles, [rate |-> sample_rate, tp |-> time_passed,
                                      nst |-> next_sample_time, pos |-> buffer_insert_pos,
                                      buffer |-> buffer, sender |-> sender,
                                      done |-> samples_done, sent |-> sent_count,
                                      last |-> last_sent, obs |-> NoPushObs])} :
            /\ push_obs' = st.obs
            /\ time_passed' = st.tp
            /\ next_sample_time' = st.nst
            /\ buffer_insert_pos' = st.pos
            /\ buffer' = st.buffer
            /\ sender' = st.sender
            /\ samples_done' = st.done
            /\ sent_count' = st.sent
            /\ last_sent' = st.last
            /\ cycles_pushed' = cycles_pushed + cycles
    /\ UNCHANGED sample_rate
    /\ UNCHANGED << ppuVars, regVars, spriteVars, apuVars, chanVars, noiseVars, mixerVars, coreVars, frameVars, obs, serialVars, opcodeVars, bootVars, builderVars, memVars, stageVars, arithVars, nr52Vars >>

\* AudioOutput::open_channel, called before the first push
OpenChannel ==
    /\ cycles_pushed = 0
    /\ \E rate \in AudioRates : sample_rate' = rate
    /\ sender' = "open"
    /\ UNCHANGED << time_passed, next_sample_time, buffer_insert_pos, buffer, cycles_pushed,
                    samples_done, sent_count, last_sent >>
    /\ UNCHANGED << ppuVars, regVars, spriteVars, apuVars, chanVars, noiseVars, mixerVars, coreVars, frameVars, obs, serialVars, opcodeVars, bootVars, builderVars, memVars, stageVars, arithVars, nr52Vars, pushVars >>

\* the frontend drops the receiver returned by open_channel
DropReceiver ==
    /\ sender = "open"
    /\ sender' = "dropped"
    /\ UNCHANGED << sample_rate, time_passed, next_sample_time, buffer_insert_pos, buffer,
                    cycles_pushed, samples_done, sent_count, last_sent >>
    /\ UNCHANGED << ppuVars, regVars, spriteVars, apuVars, chanVars, noiseVars, mixerVars, coreVars, frameVars, obs, serialVars, opcodeVars, bootVars, builderVars, memVars, stageVars, arithVars, nr52Vars, pushVars >>

----------------------------------------------------------------------------
(* ------------------------------------------------------------------ *)
(* SerialPort (src/lib/core/src/serial.rs) *)

UPDATE_TIME_SERIAL_TRANSFER == 4096

\* get_bit on the bytes written to SC: bit 7 and bit 0
TransferEnabled(value) == value >= 128
InternalClock(value) == value % 2 = 1

\* update with the byte pushed whether or not the queue is enabled
QueueAfterTransferAlways(enabled, queue, byte) == Append(queue, byte)

\* update: the output queue after a transfer of the byte
QueueAfterTransfer(enabled, queue, byte) == IF enabled THEN Append(queue, byte) ELSE queue

\* nothing taken from the queue
NothingTaken == [op |-> "none", result |-> << >>]

\* SerialPort::new, with SB and SC zero
SerialInit ==
    /\ serial_clock = 0
    /\ sc = 0
    /\ sb = 0
    /\ output_queue = << >>
    /\ output_queue_enabled = FALSE
    /\ serial_irq = 0
    /\ since_write = 0
    /\ taken = NothingTaken

\* the cycles of one update, the bytes written to SC and to SB
SerialStepSizes == {1024, 3072}
ScValues == {0, 1, 128, 129}
SbValues == {65, 66}

\* SerialPort::update
SerialUpdate ==
    /\ \E cycles \in SerialStepSizes :
         \E clock1 \in {serial_clock + cycles} :
            /\ IF clock1 >= UPDATE_TIME_SERIAL_TRANSFER
               THEN /\ IF TransferEnabled(sc)
                       THEN /\ output_queue' = QueueAfterTransfer(output_queue_enabled, output_queue, sb)
                            /\ sc' = sc - 128
                            /\ serial_irq' = 1
                       ELSE /\ UNCHANGED << output_queue, sc >>
                            /\ serial_irq' = 0
                    /\ serial_clock' = clock1 - UPDATE_TIME_SERIAL_TRANSFER
               ELSE /\ UNCHANGED << output_queue, sc >>
                    /\ serial_irq' = 0
                    /\ serial_clock' = clock1
            /\ since_write' = IF TransferEnabled(sc) THEN since_write + cycles ELSE since_write
    /\ taken' = NothingTaken
    /\ UNCHANGED << sb, output_queue_enabled >>
    /\ UNCHANGED << ppuVars, regVars, spriteVars, apuVars, chanVars, noiseVars, mixerVars, audioVars, coreVars, frameVars, obs, opcodeVars, bootVars, builderVars, memVars, stageVars, arithVars, nr52Vars, pushVars >>

\* the program writes SC
WriteSc ==
    /\ \E value \in ScValues :
          /\ TransferEnabled(value) => Len(output_queue) < MaxQueue
          /\ sc' = value
          /\ since_write' = IF TransferEnabled(value) THEN 0 ELSE since_write
    /\ serial_irq' = 0
    /\ taken' = NothingTaken
    /\ UNCHANGED << serial_clock, sb, output_queue, output_queue_enabled >>
    /\ UNCHANGED << ppuVars, regVars, spriteVars, apuVars, chanVars, noiseVars, mixerVars, audioVars, coreVars, frameVars, obs, opcodeVars, bootVars, builderVars, memVars, stageVars, arithVars, nr52Vars, pushVars >>

\* the program writes SB
WriteSb ==
    /\ \E value \in SbValues : sb' = value
    /\ serial_irq' = 0
    /\ taken' = NothingTaken
    /\ UNCHANGED << serial_clock, sc, output_queue, output_queue_enabled, since_write >>
    /\ UNCHANGED << ppuVars, regVars, spriteVars, apuVars, chanVars, noiseVars, mixerVars, audioVars, coreVars, frameVars, obs, opcodeVars, bootVars, builderVars, memVars, stageVars, arithVars, nr52Vars, pushVars >>

\* SerialPort::enable_output_queue
EnableOutputQueue ==
    /\ \E enabled \in BOOLEAN : output_queue_enabled' = enabled
    /\ serial_irq' = 0
    /\ taken' = NothingTaken
    /\ UNCHANGED << serial_clock, sc, sb, output_queue, since_write >>
    /\ UNCHANGED << ppuVars, regVars, spriteVars, apuVars, chanVars, noiseVars, mixerVars, audioVars, coreVars, frameVars, obs, opcodeVars, bootVars, builderVars, memVars, stageVars, arithVars, nr52Vars, pushVars >>

\* SerialPort::take_output
TakeOutput ==
    /\ taken' = [op |-> "take_output", result |-> output_queue]
    /\ output_queue' = << >>
    /\ serial_irq' = 0
    /\ UNCHANGED << serial_clock, sc, sb, output_queue_enabled, since_write >>
    /\ UNCHANGED << ppuVars, regVars, spriteVars, apuVars, chanVars, noiseVars, mixerVars, audioVars, coreVars, frameVars, obs, opcodeVars, bootVars, builderVars, memVars, stageVars, arithVars, nr52Vars, pushVars >>

\* SerialPort::take_next; the result is the byte taken, or none
TakeNext ==
    /\ IF output_queue # << >>
       THEN /\ taken' = [op |-> "take_next", result |-> << Head(output_queue) >>]
            /\ output_queue' = Tail(output_queue)
       ELSE /\ taken' = [op |-> "take_next", result |-> << >>]
            /\ UNCHANGED output_queue
    /\ serial_irq' = 0
    /\ UNCHANGED << serial_clock, sc, sb, output_queue_enabled, since_write >>
    /\ UNCHANGED << ppuVars, regVars, spriteVars, apuVars, chanVars, noiseVars, mixerVars, audioVars, coreVars, frameVars, obs, opcodeVars, bootVars, builderVars, memVars, stageVars, arithVars, nr52Vars, pushVars >>

----------------------------------------------------------------------------
(* ------------------------------------------------------------------ *)
(* Opcode tables (src/src/opcodes/mod.rs) *)

Opcodes == 0..255

\* OPCODE_TABLE: the indices whose entry is OPCODE_INVALID
BaseInvalid ==
    {192, 193, 196, 197, 199, 200, 201, 203, 204, 205, 207,
     208, 209, 211, 212, 213, 215, 216, 217, 219, 220, 221, 223,
     225, 226, 227, 228, 229, 231, 232, 233, 235, 236, 237, 239,
     241, 242, 244, 245, 247, 248, 249, 252, 253, 255}

\* OPCODE_INVALID: the entry of an invalid opcode, its proc is panic!()
OPCODE_INVALID == [name |-> "[INVALID]", bytes |-> 1, cycles |-> 0, proc |-> "panic"]

\* OPCODE_TABLE: the entry of the opcode n is the element n + 1
OPCODE_TABLE == <<
    (* 0x00 *) [name |-> "NOP", bytes |-> 1, cycles |-> 0, proc |-> "nop"],
    (* 0x01 *) [name |-> "LD BC, ${x16}", bytes |-> 3, cycles |-> 12, proc |-> "ld_bc_u16"],
    (* 0x02 *) [name |-> "LD (BC), A", bytes |-> 1, cycles |-> 8, proc |-> "ld_bcptr_a"],
    (* 0x03 *) [name |-> "INC BC", bytes |-> 1, cycles |-> 8, proc |-> "inc_bc"],
    (* 0x04 *) [name |-> "INC B", bytes |-> 1, cycles |-> 4, proc |-> "inc_b"],
    (* 0x05 *) [name |-> "DEC B", bytes |-> 1, cycles |-> 4, proc |-> "dec_b"],
    (* 0x06 *) [name |-> "LD B, ${x8}", bytes |-> 2, cycles |-> 8, proc |-> "ld_b_u8"],
    (* 0x07 *) [name |-> "RLC A", bytes |-> 1, cycles |-> 4, proc |-> "rlc_a"],
    (* 0x08 *) [name |-> "LD (${x16}), SP", bytes |-> 3, cycles |-> 20, proc |-> "ld_u16ptr_sp"],
    (* 0x09 *) [name |-> "ADD HL, BC", bytes |-> 1, cycles |-> 8, proc |-> "add_hl_bc"],
    (* 0x0A *) [name |-> "LD A, (BC)", bytes |-> 1, cycles |-> 8, proc |-> "ld_a_bcptr"],
    (* 0x0B *) [name |-> "DEC BC", bytes |-> 1, cycles |-> 8, proc |-> "dec_bc"],
    (* 0x0C *) [name |-> "INC C", bytes |-> 1, cycles |-> 4, proc |-> "inc_c"],
    (* 0x0D *) [name |-> "DEC C", bytes |-> 1, cycles |-> 4, proc |-> "dec_c"],
    (* 0x0E *) [name |-> "LD C, ${x8}", bytes |-> 2, cycles |-> 8, proc |-> "ld_c_u8"],
    (* 0x0F *) [name |-> "RRC A", bytes |-> 1, cycles |-> 4, proc |-> "rrc_a"],
    (* 0x10 *) [name |-> "STOP", bytes |-> 1, cycles |-> 4, proc |-> "stop"],
    (* 0x11 *) [name |-> "LD DE, ${x16}", bytes |-> 3, cycles |-> 12, proc |-> "ld_de_u16"],
    (* 0x12 *) [name |-> "LD (DE), A", bytes |-> 1, cycles |-> 8, proc |-> "ld_deptr_a"],
    (* 0x13 *) [name |-> "INC DE", bytes |-> 1, cycles |-> 8, proc |-> "inc_de"],
    (* 0x14 *) [name |-> "INC D", bytes |-> 1, cycles |-> 4, proc |-> "inc_d"],
    (* 0x15 *) [name |-> "DEC D", bytes |-> 1, cycles |-> 4, proc |-> "dec_d"],
    (* 0x16 *) [name |-> "LD D, ${x8}", bytes |-> 2, cycles |-> 8, proc |-> "ld_d_u8"],
    (* 0x17 *) [name |-> "RL A", bytes |-> 1, cycles |-> 4, proc |-> "rl_a"],
    (* 0x18 *) [name |-> "JR {i8}", bytes |-> 2, cycles |-> 12, proc |-> "jr_i8"],
    (* 0x19 *) [name |-> "ADD HL, DE", bytes |-> 1, cycles |-> 8, proc |-> "add_hl_de"],
    (* 0x1A *) [name |-> "LD A, (DE)", bytes |-> 1, cycles |-> 8, proc |-> "ld_a_deptr"],
    (* 0x1B *) [name |-> "DEC DE", bytes |-> 1, cycles |-> 8, proc |-> "dec_de"],
    (* 0x1C *) [name |-> "INC E", bytes |-> 1, cycles |-> 4, proc |-> "inc_e"],
    (* 0x1D *) [name |-> "DEC E", bytes |-> 1, cycles |-> 4, proc |-> "dec_e"],
    (* 0x1E *) [name |-> "LD E, ${x8}", bytes |-> 2, cycles |-> 8, proc |-> "ld_e_u8"],
    (* 0x1F *) [name |-> "RR A", bytes |-> 1, cycles |-> 4, proc |-> "rr_a"],
    (* 0x20 *) [name |-> "JR NZ, {i8}", bytes |-> 2, cycles |-> 8, proc |-> "jr_nz_i8"],
    (* 0x21 *) [name |-> "LD HL, ${x16}", bytes |-> 3, cycles |-> 12, proc |-> "ld_hl_u16"],
    (* 0x22 *) [name |-> "LD (HL+), A", bytes |-> 1, cycles |-> 8, proc |-> "ld_hlptri_a"],
    (* 0x23 *) [name |-> "INC HL", bytes |-> 1, cycles |-> 8, proc |-> "inc_hl"],
    (* 0x24 *) [name |-> "INC H", bytes |-> 1, cycles |-> 4, proc |-> "inc_h"],
    (* 0x25 *) [name |-> "DEC H", bytes |-> 1, cycles |-> 4, proc |-> "dec_h"],
    (* 0x26 *) [name |-> "LD H, ${x8}", bytes |-> 2, cycles |-> 8, proc |-> "ld_h_u8"],
    (* 0x27 *) [name |-> "DAA", bytes |-> 1, cycles |-> 4, proc |-> "daa"],
    (* 0x28 *) [name |-> "JR Z, {i8}", bytes |-> 2, cycles |-> 8, proc |-> "jr_z_i8"],
    (* 0x29 *) [name |-> "ADD HL, HL", bytes |-> 1, cycles |-> 8, proc |-> "add_hl_hl"],
    (* 0x2A *) [name |-> "LD A, (HL+)", bytes |-> 1, cycles |-> 8, proc |-> "ld_a_hlptri"],
    (* 0x2B *) [name |-> "DEC HL", bytes |-> 1, cycles |-> 8, proc |-> "dec_hl"],
    (* 0x2C *) [name |-> "INC L", bytes |-> 1, cycles |-> 4, proc |-> "inc_l"],
    (* 0x2D *) [name |-> "DEC L", bytes |-> 1, cycles |-> 4, proc |-> "dec_l"],
    (* 0x2E *) [name |-> "LD L, ${x8}", bytes |-> 2, cycles |-> 8, proc |-> "ld_l_u8"],
    (* 0x2F *) [name |-> "CPL", bytes |-> 1, cycles |-> 4, proc |-> "cpl_a"],
    (* 0x30 *) [name |-> "JR NC, {i8}", bytes |-> 2, cycles |-> 8, proc |-> "jr_nc_i8"],
    (* 0x31 *) [name |-> "LD SP, ${x16}", bytes |-> 3, cycles |-> 12, proc |-> "ld_sp_u16"],
    (* 0x32 *) [name |-> "LD (HL-), A", bytes |-> 1, cycles |-> 8, proc |-> "ld_hlptrd_a"],
    (* 0x33 *) [name |-> "INC SP", bytes |-> 1, cycles |-> 8, proc |-> "inc_sp"],
    (* 0x34 *) [name |-> "INC (HL)", bytes |-> 1, cycles |-> 12, proc |-> "inc_hlptr"],
    (* 0x35 *) [name |-> "DEC (HL)", bytes |-> 1, cycles |-> 12, proc |-> "dec_hlptr"],
    (* 0x36 *) [name |-> "LD (HL), ${x8}", bytes |-> 2, cycles |-> 8, proc |-> "ld_hlptr_u8"],
    (* 0x37 *) [name |-> "SCF", bytes |-> 1, cycles |-> 4, proc |-> "scf"],
    (* 0x38 *) [name |-> "JR C, {i8}", bytes |-> 2, cycles |-> 8, proc |-> "jr_c_i8"],
    (* 0x39 *) [name |-> "ADD HL, SP", bytes |-> 1, cycles |-> 8, proc |-> "add_hl_sp"],
    (* 0x3A *) [name |-> "LD A, (HL-)", bytes |-> 1, cycles |-> 8, proc |-> "ld_a_hlptrd"],
    (* 0x3B *) [name |-> "DEC SP", bytes |-> 1, cycles |-> 8, proc |-> "dec_sp"],
    (* 0x3C *) [name |-> "INC A", bytes |-> 1, cycles |-> 4, proc |-> "inc_a"],
    (* 0x3D *) [name |-> "DEC A", bytes |-> 1, cycles |-> 4, proc |-> "dec_a"],
    (* 0x3E *) [name |-> "LD A, ${x8}", bytes |-> 2, cycles |-> 8, proc |-> "ld_l_u8"],
    (* 0x3F *) [name |-> "CCF", bytes |-> 1, cycles |-> 4, proc |-> "ccf"],
    (* 0x40 *) [name |-> "LD B, B", bytes |-> 1, cycles |-> 4, proc |-> "ld_b_b"],
    (* 0x41 *) [name |-> "LD B, C", bytes |-> 1, cycles |-> 4, proc |-> "ld_b_c"],
    (* 0x42 *) [name |-> "LD B, D", bytes |-> 1, cycles |-> 4, proc |-> "ld_b_d"],
    (* 0x43 *) [name |-> "LD B, E", bytes |-> 1, cycles |-> 4, proc |-> "ld_b_e"],
    (* 0x44 *) [name |-> "LD B, H", bytes |-> 1, cycles |-> 4, proc |-> "ld_b_h"],
    (* 0x45 *) [name |-> "LD B, L", bytes |-> 1, cycles |-> 4, proc |-> "ld_b_l"],
    (* 0x46 *) [name |-> "LD B, (HL)", bytes |-> 1, cycles |-> 8, proc |-> "ld_b_hlptr"],
    (* 0x47 *) [name |-> "LD B, A", bytes |-> 1, cycles |-> 4, proc |-> "ld_b_a"],
    (* 0x48 *) [name |-> "LD C, B", bytes |-> 1, cycles |-> 4, proc |-> "ld_c_b"],
    (* 0x49 *) [name |-> "LD C, C", bytes |-> 1, cycles |-> 4, proc |-> "ld_c_c"],
    (* 0x4A *) [name |-> "LD C, D", bytes |-> 1, cycles |-> 4, proc |-> "ld_c_d"],
    (* 0x4B *) [name |-> "LD C, E", bytes |-> 1, cycles |-> 4, proc |-> "ld_c_e"],
    (* 0x4C *) [name |-> "LD C, H", bytes |-> 1, cycles |-> 4, proc |-> "ld_c_h"],
    (* 0x4D *) [name |-> "LD C, L", bytes |-> 1, cycles |-> 4, proc |-> "ld_c_l"],
    (* 0x4E *) [name |-> "LD C, (HL)", bytes |-> 1, cycles |-> 8, proc |-> "ld_c_hlptr"],
    (* 0x4F *) [name |-> "LD C, A", bytes |-> 1, cycles |-> 4, proc |-> "ld_c_a"],
    (* 0x50 *) [name |-> "LD D, B", bytes |-> 1, cycles |-> 4, proc |-> "ld_d_b"],
    (* 0x51 *) [name |-> "LD D, C", bytes |-> 1, cycles |-> 4, proc |-> "ld_d_c"],
    (* 0x52 *) [name |-> "LD D, D", bytes |-> 1, cycles |-> 4, proc |-> "ld_d_d"],
    (* 0x53 *) [name |-> "LD D, E", bytes |-> 1, cycles |-> 4, proc |-> "ld_d_e"],
    (* 0x54 *) [name |-> "LD D, H", bytes |-> 1, cycles |-> 4, proc |-> "ld_d_h"],
    (* 0x55 *) [name |-> "LD D, L", bytes |-> 1, cycles |-> 4, proc |-> "ld_d_l"],
    (* 0x56 *) [name |-> "LD D, (HL)", bytes |-> 1, cycles |-> 8, proc |-> "ld_d_hlptr"],
    (* 0x57 *) [name |-> "LD D, A", bytes |-> 1, cycles |-> 4, proc |-> "ld_d_a"],
    (* 0x58 *) [name |-> "LD E, B", bytes |-> 1, cycles |-> 4, proc |-> "ld_e_b"],
    (* 0x59 *) [name |-> "LD E, C", bytes |-> 1, cycles |-> 4, proc |-> "ld_e_c"],
    (* 0x5A *) [name |-> "LD E, D", bytes |-> 1, cycles |-> 4, proc |-> "ld_e_d"],
    (* 0x5B *) [name |-> "LD E, E", bytes |-> 1, cycles |-> 4, proc |-> "ld_e_e"],
    (* 0x5C *) [name |-> "LD E, H", bytes |-> 1, cycles |-> 4, proc |-> "ld_e_h"],
    (* 0x5D *) [name |-> "LD E, L", bytes |-> 1, cycles |-> 4, proc |-> "ld_e_l"],
    (* 0x5E *) [name |-> "LD E, (HL)", bytes |-> 1, cycles |-> 8, proc |-> "ld_e_hlptr"],
    (* 0x5F *) [name |-> "LD E, A", bytes |-> 1, cycles |-> 4, proc |-> "ld_e_a"],
    (* 0x60 *) [name |-> "LD H, B", bytes |-> 1, cycles |-> 4, proc |-> "ld_h_b"],
    (* 0x61 *) [name |-> "LD H, C", bytes |-> 1, cycles |-> 4, proc |-> "ld_h_c"],
    (* 0x62 *) [name |-> "LD H, D", bytes |-> 1, cycles |-> 4, proc |-> "ld_h_d"],
    (* 0x63 *) [name |-> "LD H, E", bytes |-> 1, cycles |-> 4, proc |-> "ld_h_e"],
    (* 0x64 *) [name |-> "LD H, H", bytes |-> 1, cycles |-> 4, proc |-> "ld_h_h"],
    (* 0x65 *) [name |-> "LD H, L", bytes |-> 1, cycles |-> 4, proc |-> "ld_h_l"],
    (* 0x66 *) [name |-> "LD H, (HL)", bytes |-> 1, cycles |-> 8, proc |-> "ld_h_hlptr"],
    (* 0x67 *) [name |-> "LD H, A", bytes |-> 1, cycles |-> 4, proc |-> "ld_h_a"],
    (* 0x68 *) [name |-> "LD L, B", bytes |-> 1, cycles |-> 4, proc |-> "ld_l_b"],
    (* 0x69 *) [name |-> "LD L, C", bytes |-> 1, cycles |-> 4, proc |-> "ld_l_c"],
    (* 0x6A *) [name |-> "LD L, D", bytes |-> 1, cycles |-> 4, proc |-> "ld_l_d"],
    (* 0x6B *) [name |-> "LD L, E", bytes |-> 1, cycles |-> 4, proc |-> "ld_l_e"],
    (* 0x6C *) [name |-> "LD L, H", bytes |-> 1, cycles |-> 4, proc |-> "ld_l_h"],
    (* 0x6D *) [name |-> "LD L, L", bytes |-> 1, cycles |-> 4, proc |-> "ld_l_l"],
    (* 0x6E *) [name |-> "LD L, (HL)", bytes |-> 1, cycles |-> 8, proc |-> "ld_l_hlptr"],
    (* 0x6F *) [name |-> "LD L, A", bytes |-> 1, cycles |-> 4, proc |-> "ld_l_a"],
    (* 0x70 *) [name |-> "LD (HL), B", bytes |-> 1, cycles |-> 8, proc |-> "ld_hlptr_b"],
    (* 0x71 *) [name |-> "LD (HL), C", bytes |-> 1, cycles |-> 8, proc |-> "ld_hlptr_c"],
    (* 0x72 *) [name |-> "LD (HL), D", bytes |-> 1, cycles |-> 8, proc |-> "ld_hlptr_d"],
    (* 0x73 *) [name |-> "LD (HL), E", bytes |-> 1, cycles |-> 8, proc |-> "ld_hlptr_e"],
    (* 0x74 *) [name |-> "LD (HL), H", bytes |-> 1, cycles |-> 8, proc |-> "ld_hlptr_h"],
    (* 0x75 *) [name |-> "LD (HL), L", bytes |-> 1, cycles |-> 8, proc |-> "ld_hlptr_l"],
    (* 0x76 *) [name |-> "HALT", bytes |-> 1, cycles |-> 4, proc |-> "halt"],
    (* 0x77 *) [name |-> "LD (HL), A", bytes |-> 1, cycles |-> 8, proc |-> "ld_hlptr_a"],
    (* 0x78 *) [name |-> "LD A, B", bytes |-> 1, cycles |-> 4, proc |-> "ld_a_b"],
    (* 0x79 *) [name |-> "LD A, C", bytes |-> 1, cycles |-> 4, proc |-> "ld_a_c"],
    (* 0x7A *) [name |-> "LD A, D", bytes |-> 1, cycles |-> 4, proc |-> "ld_a_d"],
    (* 0x7B *) [name |-> "LD A, E", bytes |-> 1, cycles |-> 4, proc |-> "ld_a_e"],
    (* 0x7C *) [name |-> "LD A, H", bytes |-> 1, cycles |-> 4, proc |-> "ld_a_h"],
    (* 0x7D *) [name |-> "LD A, L", bytes |-> 1, cycles |-> 4, proc |-> "ld_a_l"],
    (* 0x7E *) [name |-> "LD A, (HL)", bytes |-> 1, cycles |-> 8, proc |-> "ld_a_hlptr"],
    (* 0x7F *) [name |-> "LD A, A", bytes |-> 1, cycles |-> 4, proc |-> "ld_a_a"],
    (* 0x80 *) [name |-> "ADD A, B", bytes |-> 1, cycles |-> 4, proc |-> "add_a_b"],
    (* 0x81 *) [name |-> "ADD A, C", bytes |-> 1, cycles |-> 4, proc |-> "add_a_c"],
    (* 0x82 *) [name |-> "ADD A, D", bytes |-> 1, cycles |-> 4, proc |-> "add_a_d"],
    (* 0x83 *) [name |-> "ADD A, E", bytes |-> 1, cycles |-> 4, proc |-> "add_a_e"],
    (* 0x84 *) [name |-> "ADD A, H", bytes |-> 1, cycles |-> 4, proc |-> "add_a_h"],
    (* 0x85 *) [name |-> "ADD A, L", bytes |-> 1, cycles |-> 4, proc |-> "add_a_l"],
    (* 0x86 *) [name |-> "ADD A, (HL)", bytes |-> 1, cycles |-> 8, proc |-> "add_a_hlptr"],
    (* 0x87 *) [name |-> "ADD A, A", bytes |-> 1, cycles |-> 4, proc |-> "add_a_a"],
    (* 0x88 *) [name |-> "ADC A, B", bytes |-> 1, cycles |-> 4, proc |-> "adc_a_b"],
    (* 0x89 *) [name |-> "ADC A, C", bytes |-> 1, cycles |-> 4, proc |-> "adc_a_c"],
    (* 0x8A *) [name |-> "ADC A, D", bytes |-> 1, cycles |-> 4, proc |-> "adc_a_d"],
    (* 0x8B *) [name |-> "ADC A, E", bytes |-> 1, cycles |-> 4, proc |-> "adc_a_e"],
    (* 0x8C *) [name |-> "ADC A, H", bytes |-> 1, cycles |-> 4, proc |-> "adc_a_h"],
    (* 0x8D *) [name |-> "ADC A, L", bytes |-> 1, cycles |-> 4, proc |-> "adc_a_l"],
    (* 0x8E *) [name |-> "ADC A, (HL)", bytes |-> 1, cycles |-> 8, proc |-> "adc_a_hlptr"],
    (* 0x8F *) [name |-> "ADC A, A", bytes |-> 1, cycles |-> 4, proc |-> "adc_a_a"],
    (* 0x90 *) [name |-> "SUB A, B", bytes |-> 1, cycles |-> 4, proc |-> "sub_a_b"],
    (* 0x91 *) [name |-> "SUB A, C", bytes |-> 1, cycles |-> 4, proc |-> "sub_a_c"],
    (* 0x92 *) [name |-> "SUB A, D", bytes |-> 1, cycles |-> 4, proc |-> "sub_a_d"],
    (* 0x93 *) [name |-> "SUB A, E", bytes |-> 1, cycles |-> 4, proc |-> "sub_a_e"],
    (* 0x94 *) [name |-> "SUB A, H", bytes |-> 1, cycles |-> 4, proc |-> "sub_a_h"],
    (* 0x95 *) [name |-> "SUB A, L", bytes |-> 1, cycles |-> 4, proc |-> "sub_a_l"],
    (* 0x96 *) [name |-> "SUB A, (HL)", bytes |-> 1, cycles |-> 8, proc |-> "sub_a_hlptr"],
    (* 0x97 *) [name |-> "SUB A, A", bytes |-> 1, cycles |-> 4, proc |-> "sub_a_a"],
    (* 0x98 *) [name |-> "SBC A, B", bytes |-> 1, cycles |-> 4, proc |-> "sbc_a_b"],
    (* 0x99 *) [name |-> "SBC A, C", bytes |-> 1, cycles |-> 4, proc |-> "sbc_a_c"],
    (* 0x9A *) [name |-> "SBC A, D", bytes |-> 1, cycles |-> 4, proc |-> "sbc_a_d"],
    (* 0x9B *) [name |-> "SBC A, E", bytes |-> 1, cycles |-> 4, proc |-> "sbc_a_e"],
    (* 0x9C *) [name |-> "SBC A, H", bytes |-> 1, cycles |-> 4, proc |-> "sbc_a_h"],
    (* 0x9D *) [name |-> "SBC A, L", bytes |-> 1, cycles |-> 4, proc |-> "sbc_a_l"],
    (* 0x9E *) [name |-> "SBC A, (HL)", bytes |-> 1, cycles |-> 8, proc |-> "sbc_a_hlptr"],
    (* 0x9F *) [name |-> "SBC A, A", bytes |-> 1, cycles |-> 4, proc |-> "sbc_a_a"],
    (* 0xA0 *) [name |-> "AND A, B", bytes |-> 1, cycles |-> 4, proc |-> "and_a_b"],
    (* 0xA1 *) [name |-> "AND A, C", bytes |-> 1, cycles |-> 4, proc |-> "and_a_c"],
    (* 0xA2 *) [name |-> "AND A, D", bytes |-> 1, cycles |-> 4, proc |-> "and_a_d"],
    (* 0xA3 *) [name |-> "AND A, E", bytes |-> 1, cycles |-> 4, proc |-> "and_a_e"],
    (* 0xA4 *) [name |-> "AND A, H", bytes |-> 1, cycles |-> 4, proc |-> "and_a_h"],
    (* 0xA5 *) [name |-> "AND A, L", bytes |-> 1, cycles |-> 4, proc |-> "and_a_l"],
    (* 0xA6 *) [name |-> "AND A, (HL)", bytes |-> 1, cycles |-> 8, proc |-> "and_a_hlptr"],
    (* 0xA7 *) [name |-> "AND A, A", bytes |-> 1, cycles |-> 4, proc |-> "and_a_a"],
    (* 0xA8 *) [name |-> "XOR A, B", bytes |-> 1, cycles |-> 4, proc |-> "xor_a_b"],
    (* 0xA9 *) [name |-> "XOR A, C", bytes |-> 1, cycles |-> 4, proc |-> "xor_a_c"],
    (* 0xAA *) [name |-> "XOR A, D", bytes |-> 1, cycles |-> 4, proc |-> "xor_a_d"],
    (* 0xAB *) [name |-> "XOR A, E", bytes |-> 1, cycles |-> 4, proc |-> "xor_a_e"],
    (* 0xAC *) [name |-> "XOR A, H", bytes |-> 1, cycles |-> 4, proc |-> "xor_a_h"],
    (* 0xAD *) [name |-> "XOR A, L", bytes |-> 1, cycles |-> 4, proc |-> "xor_a_l"],
    (* 0xAE *) [name |-> "XOR A, (HL)", bytes |-> 1, cycles |-> 8, proc |-> "xor_a_hlptr"],
    (* 0xAF *) [name |-> "XOR A, A", bytes |-> 1, cycles |-> 4, proc |-> "xor_a_a"],
    (* 0xB0 *) [name |-> "OR A, B", bytes |-> 1, cycles |-> 4, proc |-> "or_a_b"],
    (* 0xB1 *) [name |-> "OR A, C", bytes |-> 1, cycles |-> 4, proc |-> "or_a_c"],
    (* 0xB2 *) [name |-> "OR A, D", bytes |-> 1, cycles |-> 4, proc |-> "or_a_d"],
    (* 0xB3 *) [name |-> "OR A, E", bytes |-> 1, cycles |-> 4, proc |-> "or_a_e"],
    (* 0xB4 *) [name |-> "OR A, H", bytes |-> 1, cycles |-> 4, proc |-> "or_a_h"],
    (* 0xB5 *) [name |-> "OR A, L", bytes |-> 1, cycles |-> 4, proc |-> "or_a_l"],
    (* 0xB6 *) [name |-> "OR A, (HL)", bytes |-> 1, cycles |-> 8, proc |-> "or_a_hlptr"],
    (* 0xB7 *) [name |-> "OR A, A", bytes |-> 1, cycles |-> 4, proc |-> "or_a_a"],
    (* 0xB8 *) [name |-> "CP A, B", bytes |-> 1, cycles |-> 4, proc |-> "cp_a_b"],
    (* 0xB9 *) [name |-> "CP A, C", bytes |-> 1, cycles |-> 4, proc |-> "cp_a_c"],
    (* 0xBA *) [name |-> "CP A, D", bytes |-> 1, cycles |-> 4, proc |-> "cp_a_d"],
    (* 0xBB *) [name |-> "CP A, E", bytes |-> 1, cycles |-> 4, proc |-> "cp_a_e"],
    (* 0xBC *) [name |-> "CP A, H", bytes |-> 1, cycles |-> 4, proc |-> "cp_a_h"],
    (* 0xBD *) [name |-> "CP A, L", bytes |-> 1, cycles |-> 4, proc |-> "cp_a_l"],
    (* 0xBE *) [name |-> "CP A, (HL)", bytes |-> 1, cycles |-> 8, proc |-> "cp_a_hlptr"],
    (* 0xBF *) [name |-> "CP A, A", bytes |-> 1, cycles |-> 4, proc |-> "cp_a_a"],
    (* 0xC0 *) OPCODE_INVALID,
    (* 0xC1 *) OPCODE_INVALID,
    (* 0xC2 *) [name |-> "JP NZ, 0x{x16}", bytes |-> 3, cycles |-> 12, proc |-> "jp_nz_u16"],
    (* 0xC3 *) [name |-> "JP 0x{x16}", bytes |-> 3, cycles |-> 12, proc |-> "jp_u16"],
    (* 0xC4 *) OPCODE_INVALID,
    (* 0xC5 *) OPCODE_INVALID,
    (* 0xC6 *) [name |-> "ADD A, {u8}", bytes |-> 2, cycles |-> 8, proc |-> "add_a_u8"],
    (* 0xC7 *) OPCODE_INVALID,
    (* 0xC8 *) OPCODE_INVALID,
    (* 0xC9 *) OPCODE_INVALID,
    (* 0xCA *) [name |-> "JP Z, 0x{x16}", bytes |-> 3, cycles |-> 12, proc |-> "jp_z_u16"],
    (* 0xCB *) OPCODE_INVALID,
    (* 0xCC *) OPCODE_INVALID,
    (* 0xCD *) OPCODE_INVALID,
    (* 0xCE *) [name |-> "ADC A, {u8}", bytes |-> 2, cycles |-> 8, proc |-> "adc_a_u8"],
    (* 0xCF *) OPCODE_INVALID,
    (* 0xD0 *) OPCODE_INVALID,
    (* 0xD1 *) OPCODE_INVALID,
    (* 0xD2 *) [name |-> "JP NC, 0x{x16}", bytes |-> 3, cycles |-> 12, proc |-> "jp_nc_u16"],
    (* 0xD3 *) OPCODE_INVALID,
    (* 0xD4 *) OPCODE_INVALID,
    (* 0xD5 *) OPCODE_INVALID,
    (* 0xD6 *) [name |-> "SUB A, {u8}", bytes |-> 2, cycles |-> 8, proc |-> "sub_a_u8"],
    (* 0xD7 *) OPCODE_INVALID,
    (* 0xD8 *) OPCODE_INVALID,
    (* 0xD9 *) OPCODE_INVALID,
    (* 0xDA *) [name |-> "JP C, 0x{x16}", bytes |-> 3, cycles |-> 12, proc |-> "jp_c_u16"],
    (* 0xDB *) OPCODE_INVALID,
    (* 0xDC *) OPCODE_INVALID,
    (* 0xDD *) OPCODE_INVALID,
    (* 0xDE *) [name |-> "SBC A, {u8}", bytes |-> 2, cycles |-> 8, proc |-> "sbc_a_u8"],
    (* 0xDF *) OPCODE_INVALID,
    (* 0xE0 *) [name |-> "LDH $ff{x8}, A", bytes |-> 2, cycles |-> 12, proc |-> "ldh_u8_a"],
    (* 0xE1 *) OPCODE_INVALID,
    (* 0xE2 *) OPCODE_INVALID,
    (* 0xE3 *) OPCODE_INVALID,
    (* 0xE4 *) OPCODE_INVALID,
    (* 0xE5 *) OPCODE_INVALID,
    (* 0xE6 *) [name |-> "AND A, ${x8}", bytes |-> 2, cycles |-> 8, proc |-> "and_a_u8"],
    (* 0xE7 *) OPCODE_INVALID,
    (* 0xE8 *) OPCODE_INVALID,
    (* 0xE9 *) OPCODE_INVALID,
    (* 0xEA *) [name |-> "LD (${x16}), A", bytes |-> 3, cycles |-> 16, proc |-> "ld_u16ptr_a"],
    (* 0xEB *) OPCODE_INVALID,
    (* 0xEC *) OPCODE_INVALID,
    (* 0xED *) OPCODE_INVALID,
    (* 0xEE *) [name |-> "XOR A, ${x8}", bytes |-> 2, cycles |-> 8, proc |-> "xor_a_u8"],
    (* 0xEF *) OPCODE_INVALID,
    (* 0xF0 *) [name |-> "LDH A, $ff{x8}", bytes |-> 2, cycles |-> 12, proc |-> "ldh_a_u8"],
    (* 0xF1 *) OPCODE_INVALID,
    (* 0xF2 *) OPCODE_INVALID,
    (* 0xF3 *) [name |-> "DI", bytes |-> 1, cycles |-> 4, proc |-> "disable_interrupts"],
    (* 0xF4 *) OPCODE_INVALID,
    (* 0xF5 *) OPCODE_INVALID,
    (* 0xF6 *) [name |-> "OR A, ${x8}", bytes |-> 2, cycles |-> 8, proc |-> "or_a_u8"],
    (* 0xF7 *) OPCODE_INVALID,
    (* 0xF8 *) OPCODE_INVALID,
    (* 0xF9 *) OPCODE_INVALID,
    (* 0xFA *) [name |-> "LD A, (${x16})", bytes |-> 3, cycles |-> 16, proc |-> "ld_a_u16ptr"],
    (* 0xFB *) [name |-> "EI", bytes |-> 1, cycles |-> 4, proc |-> "enable_interrupts"],
    (* 0xFC *) OPCODE_INVALID,
    (* 0xFD *) OPCODE_INVALID,
    (* 0xFE *) [name |-> "CP A, ${x8}", bytes |-> 2, cycles |-> 8, proc |-> "cp_a_u8"],
    (* 0xFF *) OPCODE_INVALID >>

\* the entry of the base table bound to an opcode
BaseEntry(opcode) == OPCODE_TABLE[opcode + 1]

\* OPCODE_TABLE_EXTENDED: the indices whose entry is OPCODE_INVALID, all of them
ExtendedInvalid == Opcodes

\* the entry of a table at an index is OPCODE_INVALID
IsInvalidEntry(table, opcode) ==
    IF table = "base" THEN opcode \in BaseInvalid ELSE opcode \in ExtendedInvalid

\* the proc of an entry is run: the proc of OPCODE_INVALID is panic!()
RunProc(table, opcode) == IF IsInvalidEntry(table, opcode) THEN "panic" ELSE "returned"

\* no opcode was run
OpcodeInit ==
    /\ op_table = "none"
    /\ op_code = 0
    /\ op_result = "none"

\* the proc of OPCODE_TABLE[opcode] is run
ExecuteBase ==
    /\ op_result # "panic"
    /\ \E opcode \in Opcodes :
          /\ op_code' = opcode
          /\ op_result' = RunProc("base", opcode)
    /\ op_table' = "base"
    /\ UNCHANGED << ppuVars, regVars, spriteVars, apuVars, chanVars, noiseVars, mixerVars, audioVars, serialVars, coreVars, frameVars, obs, bootVars, builderVars, memVars, stageVars, arithVars, nr52Vars, pushVars >>

\* the proc of OPCODE_TABLE_EXTENDED[opcode] is run
ExecuteExtended ==
    /\ op_result # "panic"
    /\ \E opcode \in Opcodes :
          /\ op_code' = opcode
          /\ op_result' = RunProc("extended", opcode)
    /\ op_table' = "extended"
    /\ UNCHANGED << ppuVars, regVars, spriteVars, apuVars, chanVars, noiseVars, mixerVars, audioVars, serialVars, coreVars, frameVars, obs, bootVars, builderVars, memVars, stageVars, arithVars, nr52Vars, pushVars >>

----------------------------------------------------------------------------
(* ------------------------------------------------------------------ *)
(* EmulatorCore::initialize (src/lib/core/src/emulator_core.rs) *)

DeviceTypes == {"GameBoyDmg", "GameBoyPocket", "GameBoyColor", "GameBoyAdvance",
                "GameBoyAdvanceSP", "SuperGameBoy", "SuperGameBoy2"}
EmulationTypes == {"DMG", "GBC"}

\* the header checksums and title checksums of the cartridges inserted
HeaderChecksums == {0, 1, 231}
TitleChecksums == {0, 15, 67, 88, 255}

\* the registers before initialize: of a new Cpu, and of a Cpu that has run
CpuStates ==
    { [a |-> 0, f |-> 0, b |-> 0, c |-> 0, d |-> 0, e |-> 0, h |-> 0, l |-> 0,
       sp |-> 0, pc |-> 0],
      [a |-> 90, f |-> 64, b |-> 1, c |-> 2, d |-> 3, e |-> 4, h |-> 192, l |-> 5,
       sp |-> 57343, pc |-> 336] }

\* carrying_add_u8(a, b, false): the sum and the half carry
CarryingAddU8(a, b) == [sum |-> (a + b) % 256, half |-> ((a % 16) + (b % 16)) > 15]

\* CpuFlag::bit
CpuFlagBit(flag) ==
    CASE flag = "Zero" -> 7
      [] flag = "Negative" -> 6
      [] flag = "HalfCarry" -> 5
      [] flag = "Carry" -> 4

\* the flags register built without the half carry flag
FlagsByteWithoutHalfCarry(flag_z, flag_n, flag_h, flag_c) ==
    (IF flag_z THEN 2^CpuFlagBit("Zero") ELSE 0)
      + (IF flag_n THEN 2^CpuFlagBit("Negative") ELSE 0)
      + (IF flag_c THEN 2^CpuFlagBit("Carry") ELSE 0)

\* setup_initial_values: build flags register
FlagsByte(flag_z, flag_n, flag_h, flag_c) ==
    (IF flag_z THEN 2^CpuFlagBit("Zero") ELSE 0)
      + (IF flag_n THEN 2^CpuFlagBit("Negative") ELSE 0)
      + (IF flag_h THEN 2^CpuFlagBit("HalfCarry") ELSE 0)
      + (IF flag_c THEN 2^CpuFlagBit("Carry") ELSE 0)

\* setup_initial_values: the tuple selected by device and emulation
InitialValues(device, emulation, header, title) ==
    LET ch == header # 0
        gba == CarryingAddU8(title, 1)
        V(a, z, n, hf, cf, b, c, d, e, h, l) ==
            [a |-> a, z |-> z, n |-> n, hf |-> hf, cf |-> cf,
             b |-> b, c |-> c, d |-> d, e |-> e, h |-> h, l |-> l]
    IN  CASE device = "GameBoyDmg" -> V(1, TRUE, FALSE, ch, ch, 0, 19, 0, 216, 1, 77)
          [] device = "GameBoyPocket" -> V(1, TRUE, FALSE, ch, ch, 0, 19, 0, 216, 1, 77)
          [] device = "GameBoyColor" /\ emulation = "DMG" ->
                IF title \in {67, 88}
                THEN V(17, TRUE, FALSE, FALSE, FALSE, title, 0, 0, 8, 153, 26)
                ELSE V(17, TRUE, FALSE, FALSE, FALSE, title, 0, 0, 8, 0, 124)
          [] device = "GameBoyColor" /\ emulation = "GBC" ->
                V(17, TRUE, FALSE, FALSE, FALSE, 0, 0, 255, 86, 0, 13)
          [] device \in {"GameBoyAdvance", "GameBoyAdvanceSP"} /\ emulation = "DMG" ->
                IF gba.sum \in {68, 89}
                THEN V(17, gba.sum = 0, FALSE, gba.half, FALSE, gba.sum, 0, 0, 8, 153, 26)
                ELSE V(17, gba.sum = 0, FALSE, gba.half, FALSE, gba.sum, 0, 0, 8, 0, 124)
          [] device \in {"GameBoyAdvance", "GameBoyAdvanceSP"} /\ emulation = "GBC" ->
                V(17, FALSE, FALSE, FALSE, FALSE, 1, 0, 255, 86, 0, 13)
          [] device = "SuperGameBoy" -> V(1, FALSE, FALSE, FALSE, FALSE, 0, 20, 0, 0, 192, 96)
          [] device = "SuperGameBoy2" -> V(255, FALSE, FALSE, FALSE, FALSE, 0, 20, 0, 0, 192, 96)

\* setup_initial_values: the registers of the Cpu
SetupInitialValues(device, emulation, header, title) ==
    LET v == InitialValues(device, emulation, header, title)
    IN  [a |-> v.a, f |-> FlagsByte(v.z, v.n, v.hf, v.cf),
         b |-> v.b, c |-> v.c, d |-> v.d, e |-> v.e, h |-> v.h, l |-> v.l,
         sp |-> 65534, pc |-> 256]

\* no core is being initialized
BootIdle ==
    /\ cfg_device = "GameBoyDmg"
    /\ cfg_emulation = "DMG"
    /\ has_boot_rom = FALSE
    /\ header_checksum = 0
    /\ title_checksum = 0
    /\ cpu = [a |-> 0, f |-> 0, b |-> 0, c |-> 0, d |-> 0, e |-> 0, h |-> 0, l |-> 0,
              sp |-> 0, pc |-> 0]
    /\ initialized = FALSE

\* a core of any device configuration, with or without boot ROM
BootStart ==
    /\ cfg_device \in DeviceTypes
    /\ cfg_emulation \in EmulationTypes
    /\ has_boot_rom \in BOOLEAN
    /\ header_checksum \in HeaderChecksums
    /\ title_checksum \in TitleChecksums
    /\ cpu \in CpuStates
    /\ initialized = FALSE

\* EmulatorCore::initialize
Initialize ==
    /\ cpu' = IF has_boot_rom
              THEN [cpu EXCEPT !.pc = 0]
              ELSE SetupInitialValues(cfg_device, cfg_emulation, header_checksum, title_checksum)
    /\ initialized' = TRUE
    /\ UNCHANGED << cfg_device, cfg_emulation, has_boot_rom, header_checksum, title_checksum >>
    /\ UNCHANGED << ppuVars, regVars, spriteVars, apuVars, chanVars, noiseVars, mixerVars, audioVars, serialVars, opcodeVars, coreVars, frameVars, obs, builderVars, memVars, stageVars, arithVars, nr52Vars, pushVars >>

----------------------------------------------------------------------------
(* ------------------------------------------------------------------ *)
(* Builder (src/lib/support/src/gameboy.rs, src/lib/core/src/gameboy.rs) *)

GameBoyColorSupport == {"None", "Supported", "Required"}

\* Cartridge::supports_cgb
SupportsCgb(cartridge) == cartridge \in {"Supported", "Required"}

\* Builder::select_preferred_device_type
SelectPreferredDeviceType(device_type, cartridge) ==
    IF device_type # "none" THEN device_type
    ELSE IF cartridge # "none"
         THEN (IF cartridge = "None" THEN "GameBoyDmg" ELSE "GameBoyColor")
         ELSE "GameBoyDmg"

\* Builder::select_emulation_type
SelectEmulationType(device_type, cartridge) ==
    IF device_type # "GameBoyDmg" /\ cartridge # "none" /\ SupportsCgb(cartridge)
    THEN "GBC" ELSE "DMG"

\* the result of a successful finish
BuiltOk(builder, device, emulation) ==
    [status |-> "Ok", builder |-> builder, error |-> "none",
     device |-> device, emulation |-> emulation]

\* Builder::finish of src/lib/support/src/gameboy.rs
FinishOfSupport(device_type, cartridge) ==
    LET device == SelectPreferredDeviceType(device_type, cartridge)
    IN  BuiltOk("support", device, SelectEmulationType(device, cartridge))

\* Builder::finish of src/lib/core/src/gameboy.rs, built with or without the
\* feature cgb
FinishOfCore(device_type, cartridge, feature_cgb) ==
    LET device == SelectPreferredDeviceType(device_type, cartridge)
        emulation == SelectEmulationType(device, cartridge)
    IN  IF ~feature_cgb /\ emulation = "GBC"
        THEN [status |-> "Err", builder |-> "core", error |-> "GameBoyColorNotSupported",
              device |-> device, emulation |-> emulation]
        ELSE BuiltOk("core", device, emulation)

\* nothing built
NotBuilt ==
    [status |-> "none", builder |-> "none", error |-> "none",
     device |-> "none", emulation |-> "none"]

\* Builder::new
BuilderInit ==
    /\ b_boot_rom = FALSE
    /\ b_cartridge = "none"
    /\ b_device_type = "none"
    /\ b_result = NotBuilt

\* Builder::set_boot_rom
SetBootRom ==
    /\ b_result = NotBuilt
    /\ b_boot_rom' = TRUE
    /\ UNCHANGED << b_cartridge, b_device_type, b_result >>
    /\ UNCHANGED << ppuVars, regVars, spriteVars, apuVars, chanVars, noiseVars, mixerVars, audioVars, serialVars, opcodeVars, bootVars, coreVars, frameVars, obs, memVars, stageVars, arithVars, nr52Vars, pushVars >>

\* Builder::set_cartridge
SetCartridge ==
    /\ b_result = NotBuilt
    /\ \E cartridge \in GameBoyColorSupport : b_cartridge' = cartridge
    /\ UNCHANGED << b_boot_rom, b_device_type, b_result >>
    /\ UNCHANGED << ppuVars, regVars, spriteVars, apuVars, chanVars, noiseVars, mixerVars, audioVars, serialVars, opcodeVars, bootVars, coreVars, frameVars, obs, memVars, stageVars, arithVars, nr52Vars, pushVars >>

\* Builder::set_device_type
SetDeviceType ==
    /\ b_result = NotBuilt
    /\ \E device_type \in DeviceTypes : b_device_type' = device_type
    /\ UNCHANGED << b_boot_rom, b_cartridge, b_result >>
    /\ UNCHANGED << ppuVars, regVars, spriteVars, apuVars, chanVars, noiseVars, mixerVars, audioVars, serialVars, opcodeVars, bootVars, coreVars, frameVars, obs, memVars, stageVars, arithVars, nr52Vars, pushVars >>

\* Builder::finish of the support library; finish consumes the builder
FinishSupport ==
    /\ b_result = NotBuilt
    /\ b_result' = FinishOfSupport(b_device_type, b_cartridge)
    /\ UNCHANGED << b_boot_rom, b_cartridge, b_device_type >>
    /\ UNCHANGED << ppuVars, regVars, spriteVars, apuVars, chanVars, noiseVars, mixerVars, audioVars, serialVars, opcodeVars, bootVars, coreVars, frameVars, obs, memVars, stageVars, arithVars, nr52Vars, pushVars >>

\* Builder::finish of the core library; finish consumes the builder
FinishCore ==
    /\ b_result = NotBuilt
    /\ \E feature_cgb \in BOOLEAN :
          b_result' = FinishOfCore(b_device_type, b_cartridge, feature_cgb)
    /\ UNCHANGED << b_boot_rom, b_cartridge, b_device_type >>
    /\ UNCHANGED << ppuVars, regVars, spriteVars, apuVars, chanVars, noiseVars, mixerVars, audioVars, serialVars, opcodeVars, bootVars, coreVars, frameVars, obs, memVars, stageVars, arithVars, nr52Vars, pushVars >>

----------------------------------------------------------------------------
(* ------------------------------------------------------------------ *)
(* MemoryData (src/lib/core/src/mmu/memory_data.rs) *)

\* the bytes stored and the byte slices up to MaxMemLen bytes
MemBytes == {0, 255}
ByteSlices == UNION { [1..n -> MemBytes] : n \in 0..MaxMemLen }

\* read_from_bytes with a test that lets short slices through
SizeMismatchWhenLonger(len, size) == len > size

\* read_from_bytes: bytes.len() != self.size()
SizeMismatch(len, size) == len # size

\* ErrorCode::InvalidFileSize(InvalidFileSizeError { actual, expected })
InvalidFileSize(actual, expected) ==
    [status |-> "Err", error |-> "InvalidFileSize", actual |-> actual, expected |-> expected]

ResultOk == [status |-> "Ok", error |-> "none", actual |-> 0, expected |-> 0]
NoResult == [status |-> "none", error |-> "none", actual |-> 0, expected |-> 0]

\* MemoryData::read_from_bytes: the data and the result
ReadFromBytesOf(data, bytes) ==
    IF SizeMismatch(Len(bytes), Len(data))
    THEN [data |-> data, result |-> InvalidFileSize(Len(bytes), Len(data))]
    ELSE [data |-> bytes, result |-> ResultOk]

\* TryFrom<&[u8]> for MemoryDataFixedSize<SIZE>: try_into an array of SIZE
\* bytes fails exactly for a slice of another length
TryFromSlice(size, value) ==
    IF Len(value) # size
    THEN [arr |-> << >>, result |-> InvalidFileSize(Len(value), size)]
    ELSE [arr |-> value, result |-> ResultOk]

\* no MemoryDataFixedSize made
NoFixedSize == [size |-> 0, value |-> << >>, arr |-> << >>, result |-> NoResult]

\* no memory data; md_data is the one memory data there is, made by alloc or
\* by try_from
MemDataInit ==
    /\ md_data = << >>
    /\ md_result = [bytes |-> << >>, result |-> NoResult]
    /\ md_fixed = NoFixedSize

\* MemoryDataDynamic::alloc
MemAlloc ==
    /\ \E size \in 0..MaxMemLen : md_data' = [i \in 1..size |-> 255]
    /\ md_result' = [bytes |-> << >>, result |-> NoResult]
    /\ md_fixed' = NoFixedSize
    /\ UNCHANGED << ppuVars, regVars, spriteVars, apuVars, chanVars, noiseVars, mixerVars, audioVars, serialVars, opcodeVars, bootVars, builderVars, coreVars, frameVars, obs, stageVars, arithVars, nr52Vars, pushVars >>

\* MemoryData::read_from_bytes; md_result keeps the bytes given, and md_fixed
\* describes the last call only if that was a try_from
MemReadFromBytes ==
    /\ \E bytes \in ByteSlices :
         \E r \in {ReadFromBytesOf(md_data, bytes)} :
            /\ md_data' = r.data
            /\ md_result' = [bytes |-> bytes, result |-> r.result]
    /\ md_fixed' = NoFixedSize
    /\ UNCHANGED << ppuVars, regVars, spriteVars, apuVars, chanVars, noiseVars, mixerVars, audioVars, serialVars, opcodeVars, bootVars, builderVars, coreVars, frameVars, obs, stageVars, arithVars, nr52Vars, pushVars >>

\* MemoryDataFixedSize::<SIZE>::try_from(slice): Ok makes the memory data of
\* the array, Err makes none and the data there is stays
MemTryFrom ==
    /\ \E size \in 0..MaxMemLen, value \in ByteSlices :
         \E r \in {TryFromSlice(size, value)} :
            /\ md_fixed' = [size |-> size, value |-> value, arr |-> r.arr, result |-> r.result]
            /\ md_data' = IF r.result = ResultOk THEN r.arr ELSE md_data
    /\ md_result' = [bytes |-> << >>, result |-> NoResult]
    /\ UNCHANGED << ppuVars, regVars, spriteVars, apuVars, chanVars, noiseVars, mixerVars, audioVars, serialVars, opcodeVars, bootVars, builderVars, coreVars, frameVars, obs, stageVars, arithVars, nr52Vars, pushVars >>

----------------------------------------------------------------------------
(* ------------------------------------------------------------------ *)
(* The 8-bit arithmetic of the OAM scan and of the sprite pixel lookup on
   one sprite (src/src/ppu.rs) *)

\* do_oam_scan_for_line with both sides of the && evaluated
ScanArithmeticEager(sp, line, h) == << line + 16, sp.pos_y + h >>

\* do_oam_scan_for_line: the u8 values computed for one OAM entry, in order:
\* ly_plus_16 and, if the tests before it hold, pos_y + sprite_h
ScanArithmetic(sp, line, h) ==
    << line + 16 >> \o
    (IF sp.pos_x > 0 /\ line + 16 >= sp.pos_y THEN << sp.pos_y + h >> ELSE << >>)

\* read_scanline_sprite_pixel and read_sprite_pixel_from_address: the u8 values
\* computed for one sprite of the scanline, in order: screen_x, screen_y and,
\* if the sprite overlaps the pixel, sprite_pixel_x, sprite_pixel_y, the
\* values of the flips and the shift 7 - x of the pixel mask
ReadArithmetic(sp, line, x, h) ==
    LET screen_x == x + 8
        screen_y == line + 16
        px == screen_x - sp.pos_x
        py == screen_y - sp.pos_y
    IN  << screen_x, screen_y >> \o
        (IF SpriteCoversPixel(sp, x)
         THEN << px, py >> \o
              (IF IsFlipX(sp) THEN << SPRITE_W - px, SPRITE_W - px - 1 >> ELSE << >>) \o
              (IF IsFlipY(sp) THEN << h - py, h - py - 1 >> ELSE << >>) \o
              << 7 - SpritePixelX(sp, x) >>
         ELSE << >>)

\* an 8-bit operation overflows: one of the values is not a u8
Overflows(values) == \E i \in 1..Len(values) : values[i] < 0 \/ values[i] > 255

\* the values of pos_y and pos_x, the lines and the columns of the screen, the
\* sprite heights and the flags of an unflipped and a flipped sprite
Bytes == 0..255
Lines == 0..(SCREEN_H - 1)
Columns == 0..(SCREEN_W - 1)
SpriteHeights == {8, 16}

NoArith == [op |-> "none", sprite |-> EmptySprite, line |-> 0, x |-> 0, h |-> 8, values |-> << >>]

ArithInit == sprite_arith = NoArith

\* the arguments and the values of one pass
Arith(op, sp, line, x, h, values) ==
    [op |-> op, sprite |-> sp, line |-> line, x |-> x, h |-> h, values |-> values]

\* do_oam_scan_for_line: the pass of the loop for one OAM entry, for every
\* pos_y on every line, with pos_x 0 and above
ScanEntry ==
    /\ sprite_arith = NoArith
    /\ \E y \in Bytes, px \in {0, 8}, line \in Lines, h \in SpriteHeights :
          sprite_arith' = Arith("scan", Sprite(y, px, 0, 0), line, 0, h,
                                ScanArithmetic(Sprite(y, px, 0, 0), line, h))
    /\ UNCHANGED << ppuVars, regVars, spriteVars, apuVars, chanVars, noiseVars, mixerVars, audioVars, serialVars, opcodeVars, bootVars, builderVars, memVars, stageVars, coreVars, frameVars, obs, nr52Vars, pushVars >>

\* read_scanline_sprite_pixel: the pass of the loop for one sprite of the
\* scanline, that is, a sprite the scan of the line has taken; for every pos_x
\* at every column of the line
ReadEntryColumn ==
    /\ sprite_arith = NoArith
    /\ \E px \in Bytes, x \in Columns, f \in {0, 32} :
          /\ SpriteOnLine(Sprite(16, px, 0, f), 0, 8)
          /\ sprite_arith' = Arith("read", Sprite(16, px, 0, f), 0, x, 8,
                                   ReadArithmetic(Sprite(16, px, 0, f), 0, x, 8))
    /\ UNCHANGED << ppuVars, regVars, spriteVars, apuVars, chanVars, noiseVars, mixerVars, audioVars, serialVars, opcodeVars, bootVars, builderVars, memVars, stageVars, coreVars, frameVars, obs, nr52Vars, pushVars >>

\* the same pass for every pos_y on every line
ReadEntryRow ==
    /\ sprite_arith = NoArith
    /\ \E y \in Bytes, line \in Lines, h \in SpriteHeights, f \in {0, 64} :
          /\ SpriteOnLine(Sprite(y, 8, 0, f), line, h)
          /\ sprite_arith' = Arith("read", Sprite(y, 8, 0, f), line, 0, h,
                                   ReadArithmetic(Sprite(y, 8, 0, f), line, 0, h))
    /\ UNCHANGED << ppuVars, regVars, spriteVars, apuVars, chanVars, noiseVars, mixerVars, audioVars, serialVars, opcodeVars, bootVars, builderVars, memVars, stageVars, coreVars, frameVars, obs, nr52Vars, pushVars >>

----------------------------------------------------------------------------
(* EmulatorCore, src/lib/core/src/emulator_core.rs *)

Interrupts == {"VBlank", "Timer", "Serial", "Joypad"}
Events == {"PpuFrameCompleted"}

\* the peripherals that hold pending signals
SignalSources == {"apu", "ppu", "timer", "serial", "input"}

\* update_components: the components whose update is passed the cycles (the
\* Apu is updated in builds with the feature "apu")
ClockedComponents == {"cpu", "mmu", "apu", "ppu", "timer", "serial"}

\* update_components: the peripherals whose take_signals is called
TakenComponents == {"apu", "ppu", "timer", "serial", "input"}

\* process_next: the cycles of one step of a halted CPU
HALT_CYCLE == 4

\* Cpu::handle_interrupts: the cycles of an interrupt dispatch
INTERRUPT_CYCLES == 20

\* MemoryBusSignals
NoSignals == [interrupts |-> {}, events |-> {}]

SignalsOr(a, b) ==
    [interrupts |-> a.interrupts \cup b.interrupts, events |-> a.events \cup b.events]

\* what the peripherals can raise during one update_components call
RaiseNames == {"none", "ppu_vblank", "ppu_frame", "timer", "serial", "input"}

RaiseTable ==
    [name \in RaiseNames |-> [c \in SignalSources |->
        IF name = "ppu_vblank" /\ c = "ppu" THEN [interrupts |-> {"VBlank"}, events |-> {}]
        ELSE IF name = "ppu_frame" /\ c = "ppu" THEN [interrupts |-> {}, events |-> {"PpuFrameCompleted"}]
        ELSE IF name = "timer" /\ c = "timer" THEN [interrupts |-> {"Timer"}, events |-> {}]
        ELSE IF name = "serial" /\ c = "serial" THEN [interrupts |-> {"Serial"}, events |-> {}]
        ELSE IF name = "input" /\ c = "input" THEN [interrupts |-> {"Joypad"}, events |-> {}]
        ELSE NoSignals]]

Raise(name) == RaiseTable[name]

RaisedSignalsTable ==
    [name \in RaiseNames |->
        [interrupts |-> UNION {RaiseTable[name][c].interrupts : c \in SignalSources},
         events |-> UNION {RaiseTable[name][c].events : c \in SignalSources}]]

RaisedSignals(name) == RaisedSignalsTable[name]

\* Cpu::update: a halted CPU may leave HALT when an interrupt is requested
CpuUpdate(running, if, wake) == running \/ (wake /\ if # {})

\* InterruptRegisters::request_interrupts
RequestInterrupts(if, interrupts) == if \cup interrupts

\* update_components: increment clock counters
TotalAfterOverwrite(total, cycles) == cycles
TotalAfter(total, cycles) == total + cycles

\* update_components: collects all signals received from components
CollectSignals(p) ==
    [interrupts |-> UNION {p[c].interrupts : c \in TakenComponents},
     events |-> UNION {p[c].events : c \in TakenComponents}]

\* update_components(cycles); raise names what the peripherals raise while
\* they are updated, wake whether Cpu::update may leave HALT
UpdateComponents(st, cycles, raise, wake) ==
    LET raised == [c \in SignalSources |-> SignalsOr(st.pending[c], Raise(raise)[c])]
        signals == CollectSignals(raised)
    IN  [st |-> [running |-> CpuUpdate(st.running, st.if, wake),
                 if |-> RequestInterrupts(st.if, signals.interrupts),
                 total |-> TotalAfter(st.total, cycles),
                 clocks |-> [c \in DOMAIN st.clocks |->
                                IF c \in ClockedComponents
                                THEN st.clocks[c] + cycles ELSE st.clocks[c]],
                 pending |-> [c \in SignalSources |->
                                IF c \in TakenComponents THEN NoSignals ELSE raised[c]]],
         signals |-> signals]

\* process_next_opcode: signals |= ...
AccumulateSignalsOverwrite(signals, new) == new
AccumulateSignals(signals, new) == SignalsOr(signals, new)

\* process_next_opcode: the cycles still to apply when the opcode is done
RemainingCycles(cycles_consumed, total_step_cycles) == cycles_consumed - total_step_cycles

\* process_next_opcode: the cycles ahead and the StageDone results, in order
RECURSIVE RunStages(_, _, _, _, _)
RunStages(acc, calls, plan, wake, i) ==
    IF i > Len(calls) THEN acc
    ELSE LET u == UpdateComponents(acc.st, calls[i], plan[i], wake)
         IN  RunStages([st |-> u.st,
                        signals |-> AccumulateSignals(acc.signals, u.signals),
                        total_step_cycles |-> acc.total_step_cycles + calls[i]],
                       calls, plan, wake, i + 1)

\* the result of process_next: the new state, the EmulatorUpdateResults
\* (cycles, events) and what was done
StepResult(st, cycles, events, dispatched, opcodes, advanced, updates) ==
    [st |-> st, cycles |-> cycles, events |-> events, dispatched |-> dispatched,
     opcodes |-> opcodes, advanced |-> advanced, updates |-> updates]

\* process_next_opcode
ProcessNextOpcode(st, inp) ==
    LET shape == inp.shape
        calls == (IF shape.cycles_ahead # 0 THEN << shape.cycles_ahead >> ELSE << >>)
                    \o shape.stages
        a == RunStages([st |-> st, signals |-> NoSignals, total_step_cycles |-> 0],
                       calls, inp.plan, inp.wake, 1)
        st1 == [a.st EXCEPT !.running = IF inp.effect = "halt" THEN FALSE ELSE @]
        remaining_cycles == RemainingCycles(shape.cycles_consumed, a.total_step_cycles)
        u == UpdateComponents(st1, remaining_cycles, inp.plan[Len(calls) + 1], inp.wake)
        signals == AccumulateSignals(a.signals, u.signals)
    IN  StepResult(u.st, shape.cycles_consumed, signals.events, FALSE, 1,
                   a.total_step_cycles + remaining_cycles, Len(calls) + 1)

\* process_next without the test of cpu.is_running
ProcessNextAlwaysOpcode(st, inp) == ProcessNextOpcode(st, inp)

\* process_next
ProcessNext(st, inp) ==
    IF st.running
    THEN IF inp.dispatch
         THEN LET st1 == [st EXCEPT !.if = @ \ {inp.irq}]
                  cycles == INTERRUPT_CYCLES
                  u == UpdateComponents(st1, cycles, inp.plan[1], inp.wake)
              IN  StepResult(u.st, cycles, u.signals.events, TRUE, 0, cycles, 1)
         ELSE ProcessNextOpcode(st, inp)
    ELSE LET halt_cycle == HALT_CYCLE
             u == UpdateComponents(st, halt_cycle, inp.plan[1], inp.wake)
         IN  StepResult(u.st, halt_cycle, u.signals.events, FALSE, 0, halt_cycle, 1)

\* EmulatorUpdateResults::add_assign
AddCyclesKeep(cycles, rhs) == cycles
AddCycles(cycles, rhs) == cycles + rhs

AddEvents(events, rhs) == events \cup rhs

\* run_frame: the conditions that end the loop
FrameDoneCapOnly(cycles, events) == cycles >= CPU_CYCLES_PER_FRAME
FrameDone(cycles, events) ==
    "PpuFrameCompleted" \in events \/ cycles >= CPU_CYCLES_PER_FRAME

----------------------------------------------------------------------------
(* The inputs of a step *)

RECURSIVE SeqSum(_)
SeqSum(sq) == IF sq = << >> THEN 0 ELSE Head(sq) + SeqSum(Tail(sq))

\* the StageDone cycles of an opcode
StageSeqs == UNION {[1..n -> {4}] : n \in 0..MaxStages}

\* the opcodes: cycles applied ahead, cycles of each StageDone, cycles consumed
OpcodeShapes ==
    {sh \in [cycles_ahead : {0, 4}, stages : StageSeqs,
             cycles_consumed : {4 * k : k \in 1..MaxOpcodeM}] :
        sh.cycles_ahead + SeqSum(sh.stages) <= sh.cycles_consumed}

\* the opcodes executed without cycles ahead and without stages
PlainShapes == {sh \in OpcodeShapes : sh.cycles_ahead = 0 /\ sh.stages = << >>}

NoShape == [cycles_ahead |-> 0, stages |-> << >>, cycles_consumed |-> 4]

\* the number of update_components calls of an opcode
Updates(sh) == (IF sh.cycles_ahead # 0 THEN 1 ELSE 0) + Len(sh.stages) + 1

\* what is raised in each of n update_components calls: at most one call raises
Plans(n, names) ==
    {p \in [1..n -> names] : Cardinality({i \in 1..n : p[i] # "none"}) <= 1}

StepInput(dispatch, irq, shape, plan, effect, wake) ==
    [dispatch |-> dispatch, irq |-> irq, shape |-> shape, plan |-> plan,
     effect |-> effect, wake |-> wake]

\* the inputs of a step that executes an opcode: the opcode fetched, its
\* effect on the CPU and the signals raised
OpcodeInputs(shapes, names) ==
    UNION {{StepInput(FALSE, "none", sh, p, e, e = "halt" /\ w) :
                p \in Plans(Updates(sh), names), e \in {"none", "halt"}, w \in BOOLEAN} :
           sh \in shapes}

\* the inputs of a step that dispatches an interrupt
DispatchInputs(names) ==
    {StepInput(TRUE, i, NoShape, p, "none", FALSE) : i \in Interrupts, p \in Plans(1, names)}

\* the inputs of a step of a halted CPU
HaltInputs(names) ==
    {StepInput(FALSE, "none", NoShape, p, "none", w) : p \in Plans(1, names), w \in BOOLEAN}

CoreInputs ==
    [opcode |-> OpcodeInputs(OpcodeShapes, RaiseNames),
     dispatch |-> DispatchInputs(RaiseNames),
     halt |-> HaltInputs(RaiseNames)]

FrameRaiseNames == {"none", "ppu_vblank", "ppu_frame"}

FrameInputs ==
    [opcode |-> OpcodeInputs(PlainShapes, FrameRaiseNames),
     dispatch |-> DispatchInputs(FrameRaiseNames),
     halt |-> HaltInputs(FrameRaiseNames)]

\* the inputs of process_next in state st: an interrupt is dispatched only if
\* it is requested
StepInputs(st, inputs) ==
    IF st.running
    THEN {inp \in inputs.dispatch : inp.irq \in st.if} \cup inputs.opcode
    ELSE inputs.halt

\* what the plan of an input raises
PlanRaised(inp, updates) ==
    [interrupts |-> UNION {RaisedSignals(inp.plan[i]).interrupts : i \in 1..updates},
     events |-> UNION {RaisedSignals(inp.plan[i]).events : i \in 1..updates}]

----------------------------------------------------------------------------
(* ------------------------------------------------------------------ *)
(* EmulatorCore::process_next_opcode, one invocation of the opcode's
   procedure at a time (src/lib/core/src/emulator_core.rs) *)

\* the values of the I/O register
IoValues == 0..2

\* what the procedure of an opcode does with the register in one invocation
BusOps == [kind : {"none", "read"}, value : {0}] \cup [kind : {"write"}, value : IoValues]

\* update_components: the peripheral that owns the register is updated with
\* the cycles and, if its counter comes round within them, steps the register
\* (as Ppu::update steps LY); no cycles, no step
PeripheralUpdate(io, cycles, steps) ==
    IF cycles # 0 /\ steps THEN (io + 1) % Cardinality(IoValues) ELSE io

\* the value a read of the register through the Mmu returns: the register as
\* it is
BusRead(io) == io

\* the value the claim of the ordering expects a read to return
ExpectedRead(written, begin) == IF written = {} THEN begin ELSE CHOOSE v \in written : TRUE

StageInit ==
    /\ sg_pc = "idle"
    /\ sg_shape = NoShape
    /\ sg_stage = 0
    /\ sg_total_step = 0
    /\ sg_io = 0
    /\ sg_begin = 0
    /\ sg_written = {}
    /\ sg_read = {}
    /\ sg_reads = 0

\* process_next_opcode up to the loop: fetch_next_instruction, the context
\* for the instruction and the cycles ahead of the opcode
StageFetch ==
    /\ sg_pc = "idle"
    /\ \E sh \in OpcodeShapes, steps \in BOOLEAN :
          /\ sg_shape' = sh
          /\ sg_total_step' = sh.cycles_ahead
          /\ sg_io' = PeripheralUpdate(sg_io, sh.cycles_ahead, steps)
    /\ sg_pc' = "proc"
    /\ sg_stage' = 0
    /\ sg_begin' = sg_io
    /\ sg_written' = {}
    /\ sg_read' = {}
    /\ sg_reads' = 0
    /\ UNCHANGED << ppuVars, regVars, spriteVars, apuVars, chanVars, noiseVars, mixerVars, audioVars, serialVars, opcodeVars, bootVars, builderVars, memVars, coreVars, frameVars, obs, arithVars, nr52Vars, pushVars >>

\* the register after one invocation of the procedure doing op
AfterBusOp(io, op) == IF op.kind = "write" THEN op.value ELSE io

\* one pass of the loop in which the procedure returns StageDone(step_cycles)
StageDone ==
    /\ sg_pc = "proc"
    /\ sg_stage < Len(sg_shape.stages)
    /\ \E op \in BusOps, steps \in BOOLEAN :
          LET step_cycles == sg_shape.stages[sg_stage + 1]
          IN  /\ sg_read' = IF op.kind = "read" THEN {BusRead(sg_io)} ELSE sg_read
              /\ sg_reads' = IF op.kind = "read" THEN sg_reads + 1 ELSE sg_reads
              /\ sg_written' = IF op.kind = "write" THEN {op.value} ELSE sg_written
              /\ sg_total_step' = sg_total_step + step_cycles
              /\ sg_io' = PeripheralUpdate(AfterBusOp(sg_io, op), step_cycles, steps)
    /\ sg_stage' = sg_stage + 1
    /\ UNCHANGED << sg_pc, sg_shape, sg_begin >>
    /\ UNCHANGED << ppuVars, regVars, spriteVars, apuVars, chanVars, noiseVars, mixerVars, audioVars, serialVars, opcodeVars, bootVars, builderVars, memVars, coreVars, frameVars, obs, arithVars, nr52Vars, pushVars >>

\* the pass of the loop in which the procedure returns Done
StageLast ==
    /\ sg_pc = "proc"
    /\ sg_stage = Len(sg_shape.stages)
    /\ \E op \in BusOps, steps \in BOOLEAN :
          LET remaining_cycles == RemainingCycles(sg_shape.cycles_consumed, sg_total_step)
          IN  /\ sg_read' = IF op.kind = "read" THEN {BusRead(sg_io)} ELSE sg_read
              /\ sg_reads' = IF op.kind = "read" THEN sg_reads + 1 ELSE sg_reads
              /\ sg_written' = IF op.kind = "write" THEN {op.value} ELSE sg_written
              /\ sg_io' = PeripheralUpdate(AfterBusOp(sg_io, op), remaining_cycles, steps)
    /\ sg_pc' = "idle"
    /\ UNCHANGED << sg_shape, sg_stage, sg_total_step, sg_begin >>
    /\ UNCHANGED << ppuVars, regVars, spriteVars, apuVars, chanVars, noiseVars, mixerVars, audioVars, serialVars, opcodeVars, bootVars, builderVars, memVars, coreVars, frameVars, obs, arithVars, nr52Vars, pushVars >>

----------------------------------------------------------------------------
(* The state after EmulatorCore::new and Ppu::new *)

CoreState ==
    [running |-> cpu_running, if |-> reg_if, total |-> total_cycles,
     clocks |-> clocks, pending |-> pending]

\* what the last run_single_step did: whether the CPU was running when it
\* began, whether an interrupt was dispatched, the opcodes executed, the cycles
\* returned, the cycles passed to update_components, the events returned and
\* the signals the peripherals raised
NoObs ==
    [stepped |-> FALSE, was_running |-> TRUE, dispatched |-> FALSE, opcodes |-> 0,
     cycles |-> 0, advanced |-> 0, updates |-> 0, events |-> {}, raised |-> NoSignals]

CoreInit ==
    /\ total_cycles = 0
    /\ cpu_running = TRUE
    /\ reg_if = {}
    /\ pending = [c \in SignalSources |-> NoSignals]
    /\ clocks = [c \in ClockedComponents \cup SignalSources |-> 0]
    /\ rf_pc = "idle"
    /\ results_cycles = 0
    /\ results_events = {}
    /\ obs = NoObs

Init == PpuInit /\ RegInit /\ SpriteIdle /\ ApuInit /\ CoreInit /\ PushObsInit /\ Nr52Init /\ ArithInit /\ StageInit /\ MemDataInit /\ BuilderInit /\ BootIdle /\ OpcodeInit /\ SerialInit /\ AudioInit /\ MixerInit /\ NoiseInit /\ ChannelInit

SetCore(st) ==
    /\ total_cycles' = st.total
    /\ cpu_running' = st.running
    /\ reg_if' = st.if
    /\ pending' = st.pending
    /\ clocks' = st.clocks

----------------------------------------------------------------------------
(* PpuSpec: calls of Ppu::update *)

PpuSpec == Init /\ [][PpuNext]_vars

----------------------------------------------------------------------------
(* StatSpec: calls of Ppu::update between writes to STAT and LYC *)

StatNext == StatUpdate \/ WriteLcdStat \/ WriteLyc

StatSpec == Init /\ [][StatNext]_vars

----------------------------------------------------------------------------
(* LcdcSpec: calls of Ppu::update between writes to LCDC, WX and WY *)

LcdcNext == StatUpdate \/ WriteLcdcEnable \/ WriteLcdcLayers \/ WriteWindow

LcdcSpec == Init /\ [][LcdcNext]_vars

----------------------------------------------------------------------------
(* SpriteSpec: do_oam_scan_for_line and read_scanline_sprite_pixel applied to
   an OAM holding runs of sprites, with sprites 8 or 16 rows high *)

SpriteInit ==
    /\ PpuInit
    /\ lcd_stat = 0 /\ lyc = 0 /\ wx = 0 /\ wy = 0
    /\ lcdc \in {0, 2 ^ LCD_CONTROL_BIT_SPRITE_SIZE}
    /\ oam \in OamContents
    /\ scanline = [line |-> 0, sprites |-> << >>]
    /\ sprite_read = NoRead
    /\ sprite_pc = "idle"
    /\ ApuInit
    /\ CoreInit /\ PushObsInit /\ Nr52Init /\ ArithInit /\ StageInit /\ MemDataInit /\ BuilderInit /\ BootIdle /\ OpcodeInit /\ SerialInit /\ AudioInit /\ MixerInit /\ NoiseInit /\ ChannelInit

SpriteNext == OamScan \/ ReadPixel

SpriteSpec == SpriteInit /\ [][SpriteNext]_vars

----------------------------------------------------------------------------
(* ApuSpec: calls of Apu::update between writes to NR52, followed from an Apu
   whose frame sequencer made 0 or 250 steps *)

ApuStart ==
    /\ PpuInit /\ RegInit /\ SpriteIdle /\ CoreInit /\ PushObsInit /\ Nr52Init /\ ArithInit /\ StageInit /\ MemDataInit /\ BuilderInit /\ BootIdle /\ OpcodeInit /\ SerialInit /\ AudioInit /\ MixerInit /\ NoiseInit /\ ChannelInit
    /\ apu_on = TRUE
    /\ fs_clock = 0
    /\ fs_next_step \in FsStartSteps
    /\ fs_n = fs_next_step
    /\ fs_ticks = << >>
    /\ apu_cycles = 0
    /\ fs_steps = 0

ApuNext == ApuUpdate \/ WriteNr52 \/ WriteNr50 \/ WriteNr51

ApuSpec == ApuStart /\ [][ApuNext]_vars

----------------------------------------------------------------------------
(* ChannelSpec: register writes, trigger events and frame sequencer ticks on
   the four channels *)

ChannelNext == FireRegisterChanged \/ FireTriggerEvent \/ TickLengthTimer \/ TickFreqSweep

ChannelSpec == Init /\ [][ChannelNext]_vars

----------------------------------------------------------------------------
(* NoiseSpec: NoiseGenerator::update between writes to NR43 and triggers *)

NoiseNext == NoiseUpdate \/ WriteNr43 \/ NoiseTrigger

NoiseSpec == Init /\ [][NoiseNext]_vars

----------------------------------------------------------------------------
(* AudioSpec: calls of push and open_channel on an AudioOutput as constructed *)

AudioNext == AudioPush \/ OpenChannel \/ DropReceiver

AudioSpec == Init /\ [][AudioNext]_vars

----------------------------------------------------------------------------
(* SerialSpec: SerialPort::update between writes to SB and SC and calls on the
   output queue *)

SerialNext == SerialUpdate \/ WriteSc \/ WriteSb \/ EnableOutputQueue \/ TakeOutput \/ TakeNext

SerialSpec == Init /\ [][SerialNext]_vars

----------------------------------------------------------------------------
(* OpcodeSpec: the procs of the entries of the two opcode tables are run *)

OpcodeNext == ExecuteBase \/ ExecuteExtended

OpcodeSpec == Init /\ [][OpcodeNext]_vars

----------------------------------------------------------------------------
(* BootSpec: EmulatorCore::initialize on a core of any device configuration *)

BootInit ==
    /\ PpuInit /\ RegInit /\ SpriteIdle /\ ApuInit /\ CoreInit /\ PushObsInit /\ Nr52Init /\ ArithInit /\ StageInit /\ MemDataInit /\ BuilderInit /\ OpcodeInit /\ SerialInit /\ AudioInit /\ MixerInit /\ NoiseInit /\ ChannelInit
    /\ BootStart

BootNext == Initialize

BootSpec == BootInit /\ [][BootNext]_vars

----------------------------------------------------------------------------
(* BuilderSpec: a Builder is configured and finished *)

BuilderNext == SetBootRom \/ SetCartridge \/ SetDeviceType \/ FinishSupport \/ FinishCore

BuilderSpec == Init /\ [][BuilderNext]_vars

----------------------------------------------------------------------------
(* MemDataSpec: read_from_bytes on a MemoryDataDynamic and try_from of a
   MemoryDataFixedSize *)

MemDataNext == MemAlloc \/ MemReadFromBytes \/ MemTryFrom

MemDataSpec == Init /\ [][MemDataNext]_vars

----------------------------------------------------------------------------
(* StageSpec: opcodes executed by process_next_opcode, stage by stage *)

StageNext == StageFetch \/ StageDone \/ StageLast

StageSpec == Init /\ [][StageNext]_vars

----------------------------------------------------------------------------
(* NoiseClockSpec: the noise generator with NR43 values of several periods,
   the cycles and the LFSR iterations since the trigger followed *)

NoiseClockNext == ClockUpdate \/ ClockWriteNr43 \/ ClockTrigger

NoiseClockSpec == Init /\ [][NoiseClockNext]_vars

----------------------------------------------------------------------------
(* SpriteArithSpec: one pass of the loop of the OAM scan or of the sprite
   pixel lookup, for every position of a sprite *)

SpriteArithNext == ScanEntry \/ ReadEntryColumn \/ ReadEntryRow

SpriteArithSpec == Init /\ [][SpriteArithNext]_vars

----------------------------------------------------------------------------
(* CoreSpec: calls of run_single_step *)

\* run_single_step
RunSingleStep ==
    /\ rf_pc = "idle"
    /\ total_cycles < MaxTotalCycles
    /\ \E inp \in StepInputs(CoreState, CoreInputs) :
          \E r \in {ProcessNext(CoreState, inp)} :
              /\ SetCore(r.st)
              /\ obs' = [stepped |-> TRUE, was_running |-> cpu_running,
                         dispatched |-> r.dispatched, opcodes |-> r.opcodes,
                         cycles |-> r.cycles, advanced |-> r.advanced,
                         updates |-> r.updates, events |-> r.events,
                         raised |-> PlanRaised(inp, r.updates)]
    /\ UNCHANGED << ppuVars, regVars, spriteVars, apuVars, frameVars, chanVars, noiseVars, mixerVars, audioVars, serialVars, opcodeVars, bootVars, builderVars, memVars, stageVars, arithVars, nr52Vars, pushVars >>

CoreNext == RunSingleStep

CoreSpec == Init /\ [][CoreNext]_vars

----------------------------------------------------------------------------
(* FrameSpec: calls of run_frame *)

\* run_frame: let mut results = EmulatorUpdateResults::default()
RunFrameCall ==
    /\ rf_pc = "idle"
    /\ rf_pc' = "loop"
    /\ results_cycles' = 0
    /\ results_events' = {}
    /\ UNCHANGED << ppuVars, regVars, spriteVars, apuVars, coreVars, obs, chanVars, noiseVars, mixerVars, audioVars, serialVars, opcodeVars, bootVars, builderVars, memVars, stageVars, arithVars, nr52Vars, pushVars >>

\* run_frame: one pass of the loop
RunFrameStep ==
    /\ rf_pc = "loop"
    /\ \E inp \in StepInputs(CoreState, FrameInputs) :
          \E r \in {ProcessNext(CoreState, inp)} :
          LET cycles == AddCycles(results_cycles, r.cycles)
              events == AddEvents(results_events, r.events)
          IN  /\ SetCore(r.st)
              /\ results_cycles' = cycles
              /\ results_events' = events
              /\ rf_pc' = IF FrameDone(cycles, events) THEN "done" ELSE "loop"
    /\ UNCHANGED << ppuVars, regVars, spriteVars, apuVars, obs, chanVars, noiseVars, mixerVars, audioVars, serialVars, opcodeVars, bootVars, builderVars, memVars, stageVars, arithVars, nr52Vars, pushVars >>

FrameNext == RunFrameCall \/ RunFrameStep

FrameSpec == Init /\ [][FrameNext]_vars

----------------------------------------------------------------------------
(* Claims about run_frame *)

C1_CanStep == rf_pc = "loop" => ENABLED RunFrameStep

C1_LoopStep ==
    rf_pc = "loop" =>
        /\ results_cycles < CPU_CYCLES_PER_FRAME
        /\ results_cycles' > results_cycles
        /\ rf_pc' \in {"loop", "done"}

C2_StopState ==
    /\ rf_pc = "done" =>
          FrameDone(results_cycles, results_events)
    /\ rf_pc = "loop" =>
          /\ "PpuFrameCompleted" \notin results_events
          /\ results_cycles < CPU_CYCLES_PER_FRAME

C2_LoopStep ==
    rf_pc = "loop" =>
        /\ results_cycles' - results_cycles = total_cycles' - total_cycles
        /\ results_events \subseteq results_events'
        /\ results_events' \subseteq Events

----------------------------------------------------------------------------
(* Claims about a step, checked under CoreSpec *)

\* C3: a step of a running CPU either dispatches an interrupt, advances by the
\* cycles of the dispatch and executes no opcode, or dispatches none and
\* executes exactly one opcode; a step of a CPU that is not running advances
\* by exactly 4 cycles, returns 4 cycles, executes no opcode and dispatches no
\* interrupt
C3_OneOfThree ==
    obs.stepped =>
        \/ /\ obs.was_running
           /\ obs.dispatched
           /\ obs.opcodes = 0
           /\ obs.advanced = obs.cycles
        \/ /\ obs.was_running
           /\ ~obs.dispatched
           /\ obs.opcodes = 1
        \/ /\ ~obs.was_running
           /\ ~obs.dispatched
           /\ obs.opcodes = 0
           /\ obs.advanced = 4
           /\ obs.cycles = 4

\* C3: a step of a halted CPU, after which the CPU runs again
C3_Witness == obs.stepped /\ ~obs.was_running /\ cpu_running

C4_ClocksAgree ==
    \A c \in {"cpu", "mmu", "apu", "ppu", "timer", "serial"} : clocks[c] = total_cycles

C4_Step ==
    /\ total_cycles' >= total_cycles
    /\ total_cycles' = total_cycles + obs'.advanced

\* C4: total_cycles grows by exactly the cycles passed to update_components,
\* never decreases, and equals the sum of the cycles passed to the CPU, the
\* MMU, the APU, the PPU, the timer and the serial port
C4_TotalCycles == []C4_ClocksAgree /\ [][C4_Step]_vars

\* C4: a step of several update_components calls has advanced the clock
C4_Witness == obs.updates > 1 /\ total_cycles > obs.advanced /\ obs.advanced > 4

\* C5: after a step no peripheral holds a pending signal, every interrupt
\* raised during the step is requested in IF, and every event raised in any
\* update_components call of the step is among the events the step returns
C5_SignalsForwarded ==
    /\ \A c \in {"apu", "ppu", "timer", "serial", "input"} : pending[c] = NoSignals
    /\ obs.raised.interrupts \subseteq reg_if
    /\ obs.raised.events \subseteq obs.events

\* C5: an opcode of several update_components calls during which the event was
\* raised, and a step during which the input raised an interrupt
C5_Witness ==
    /\ obs.updates > 1
    /\ "PpuFrameCompleted" \in obs.raised.events
    /\ "Joypad" \in reg_if

----------------------------------------------------------------------------
(* Claims about the Ppu, checked under PpuSpec *)

\* C6 (as stated): exactly 70,224 cycles are passed to the PPU between any two
\* consecutive VBlank interrupt requests, whatever the sizes of the update steps.
C6_ExactFrameBetweenVBlanks ==
    vblank_gap # -1 => vblank_gap = CPU_CYCLES_PER_FRAME

\* C6 (amended): between two consecutive VBlank requests the PPU consumes exactly
\* 70,224 cycles of its clock; the cycles passed to it between the two requesting
\* calls are 70,224 plus the difference of the unconsumed clock these calls leave.
C6_FrameBetweenVBlanksUpToRemainder ==
    vblank_gap # -1 =>
        vblank_gap - (vblank_rem - vblank_rem_prev) = CPU_CYCLES_PER_FRAME

\* C6 witness: two consecutive VBlank requests whose calls left different remainders
C6_Witness ==
    /\ vblank_gap # -1
    /\ vblank_rem # vblank_rem_prev
    /\ since_vblank = 0

C7_ModeStep ==
    /\ ppu_mode' # ppu_mode =>
        \/ ppu_mode = "OamScan" /\ ppu_mode' = "DrawLine" /\ ly' = ly
        \/ ppu_mode = "DrawLine" /\ ppu_mode' = "HBlank" /\ ly' = ly
              /\ current_line_pixel' = SCREEN_W
        \/ ppu_mode = "HBlank" /\ ppu_mode' = "OamScan" /\ ly' = ly + 1 /\ ly' <= 143
        \/ ppu_mode = "HBlank" /\ ppu_mode' = "VBlank" /\ ly' = ly + 1 /\ ly' = 144
        \/ ppu_mode = "VBlank" /\ ppu_mode' = "OamScan" /\ ly = 153 /\ ly' = 0
    /\ ly' # ly =>
        \/ ppu_mode = "HBlank"
              /\ ppu_clock + ppu_last_cycles' >= CPU_CYCLES_PER_LINE - current_line_cycles
        \/ ppu_mode = "VBlank"
              /\ ppu_clock + ppu_last_cycles' >= CPU_CYCLES_PER_LINE

\* C7: the mode changes only along OamScan -> DrawLine, DrawLine -> HBlank (160
\* pixels written), HBlank -> OamScan (LY + 1 <= 143), HBlank -> VBlank (LY + 1 =
\* 144), VBlank -> OamScan (LY 153 -> 0); LY changes only when the 456 cycles of
\* a line in HBlank or VBlank have passed.
C7_ModeTransitions == [][C7_ModeStep]_vars

\* C7 witness: VBlank was entered from the HBlank of line 143
C7_Witness == ppu_mode = "VBlank" /\ ly = 144 /\ "VBlank" \in ppu_requested

\* C8 (as stated): the OAM scan is left in the update call in which the cycles
\* accumulated since the line began reach 80, so no call returns in OamScan with
\* 80 or more cycles on the clock.
C8_OamScanLeftAt80 ==
    ppu_mode = "OamScan" => ppu_clock < OAM_SCAN_CYCLES

\* C9 (as stated): when a visible line enters HBlank, its Draw mode has consumed
\* between 172 and 289 cycles of the PPU clock.
C9_DrawWithin172And289 ==
    ppu_mode = "HBlank" =>
        /\ current_line_cycles - OAM_SCAN_CYCLES >= 172
        /\ current_line_cycles - OAM_SCAN_CYCLES <= 289

C10_LyStep ==
    /\ ly' \in 0..LAST_LINE
    /\ ~ppu_panicked'
    /\ ly' # ly => ly' = (IF ly = 153 THEN 0 ELSE ly + 1)

\* C10: LY is always within 0..153, an advance from 153 yields 0, every other
\* advance adds exactly 1, and next_ly never runs into unreachable!().
C10_LyRange ==
    /\ ly \in 0..LAST_LINE
    /\ ~ppu_panicked
    /\ [][C10_LyStep]_vars

\* C11: an update requests the VBlank interrupt exactly when it changes LY from
\* 143 to 144 and enters VBlank from HBlank; no update of the lines 145..153,
\* of the wrap to line 0 or of another mode change requests it
C11_VBlankOnlyAt144 ==
    [][ /\ "VBlank" \in ppu_requested' <=> (ly = 143 /\ ly' = 144)
        /\ "VBlank" \in ppu_requested' => (ppu_mode = "HBlank" /\ ppu_mode' = "VBlank") ]_vars

\* C11 witness: the VBlank request of a second frame, one frame after the first
C11_Witness ==
    /\ "VBlank" \in ppu_requested
    /\ ly = 144
    /\ vblank_gap >= CPU_CYCLES_PER_FRAME - 4 * MaxStepM

\* C10 witness: LY wrapped from 153 to 0 and the frame was reported as completed
C10_Witness ==
    ly = 0 /\ ppu_mode = "OamScan" /\ ppu_frame_state = "FrameCompleted"

----------------------------------------------------------------------------
(* Claims about STAT and the LcdStat interrupt, checked under StatSpec *)

\* C12: when an update changes the mode, enter_mode was called, bits 0..1 of
\* STAT are the code of the new mode (HBlank 0, VBlank 1, OamScan 2, DrawLine
\* 3) and bits 2..7 are those of the byte enter_mode read; the bits 3..7 are
\* those STAT had before the update
C12_StatModeBits ==
    [][ ppu_mode' # ppu_mode =>
            /\ stat_entered' # -1
            /\ lcd_stat' % 4 = (CASE ppu_mode' = "HBlank" -> 0 [] ppu_mode' = "VBlank" -> 1
                                   [] ppu_mode' = "OamScan" -> 2 [] ppu_mode' = "DrawLine" -> 3)
            /\ lcd_stat' \div 4 = stat_entered' \div 4
            /\ lcd_stat' \div 8 = lcd_stat \div 8 ]_vars

\* C12 witness: VBlank was entered with all enable bits and the coincidence bit set
C12_Witness ==
    /\ ppu_mode = "VBlank"
    /\ stat_entered # -1
    /\ lcd_stat = 120 + 4 + 1

C13_UpdateStep == UNCHANGED regVars /\ lcd_stat' \div 8 = lcd_stat \div 8

C13_Entered(m) == ppu_mode' = m /\ ppu_mode # m

\* C13: an update requests the LcdStat interrupt if and only if it entered
\* HBlank with STAT bit 3 set, entered VBlank with bit 4 set, entered OamScan
\* with bit 5 set, or changed LY to the value of LYC with bit 6 set; entering
\* DrawLine requests nothing, and after a change of LY bit 2 of STAT tells
\* whether LY equals LYC
C13_LcdStatRequest ==
    [][ C13_UpdateStep =>
            /\ "LcdStat" \in ppu_requested' <=>
                    \/ C13_Entered("HBlank") /\ GetBit(lcd_stat, 3)
                    \/ C13_Entered("VBlank") /\ GetBit(lcd_stat, 4)
                    \/ C13_Entered("OamScan") /\ GetBit(lcd_stat, 5)
                    \/ ly' # ly /\ ly' = lyc /\ GetBit(lcd_stat, 6)
            /\ C13_Entered("DrawLine") => ppu_requested' = {}
            /\ ly' # ly => (GetBit(lcd_stat', 2) <=> ly' = lyc) ]_vars

\* C13 witness: only the coincidence of LY with LYC requested the interrupt, on
\* a line of VBlank
C13_Witness ==
    /\ "LcdStat" \in ppu_requested
    /\ ly = 153
    /\ lyc = 153
    /\ lcd_stat \div 8 = 8

----------------------------------------------------------------------------
(* Claims about LCDC and the window, checked under LcdcSpec *)

\* C14 (as stated): while bit 7 of LCDC is 0, LY is 0 (also right after the bit
\* was cleared), and an update changes no LY, requests no VBlank and no LcdStat
\* interrupt and writes no pixel into the LCD buffer
C14_LcdOffFreezesPpu ==
    /\ [](~GetBit(lcdc, LCD_CONTROL_BIT_LCD_ENABLED) => ly = 0)
    /\ [][ (~GetBit(lcdc, LCD_CONTROL_BIT_LCD_ENABLED) /\ UNCHANGED regVars) =>
                /\ ly' = 0
                /\ ppu_requested' = {}
                /\ ppu_drawn' = 0 ]_vars

\* C18 (as stated): next_ly increments the window line counter only at the end
\* of a visible line on which the window was drawn, never at the end of one of
\* the lines 144..153, and the counter is 0 when a frame starts
C18_WindowLineCounter ==
    /\ [](ppu_frame_state = "FrameCompleted" => window_line = 0)
    /\ [][ /\ (window_counted' => (window_enabled /\ ly < SCREEN_H))
           /\ ((window_line' # window_line) => (window_counted' \/ window_line' = 0)) ]_vars

----------------------------------------------------------------------------
(* Claims about sprites, checked under SpriteSpec *)

\* the OAM entries whose rows [pos_y, pos_y + h) contain line + 16
C15_OnLine ==
    {i \in 1..OAM_ENTRIES :
        /\ scanline.line + 16 >= oam[i].pos_y
        /\ scanline.line + 16 < oam[i].pos_y + SpriteH(lcdc)}

\* the first MAX_SPRITES of them in the order of the OAM
C15_First == {i \in C15_OnLine : Cardinality({j \in C15_OnLine : j < i}) < MAX_SPRITES}

\* the place of entry i among them when ordered by pos_x and then by OAM index
C15_Place(i) ==
    1 + Cardinality({j \in C15_First :
                        \/ oam[j].pos_x < oam[i].pos_x
                        \/ oam[j].pos_x = oam[i].pos_x /\ j < i})

\* C15 (as stated): the OAM scan keeps exactly the first up to 10 of the 40
\* entries whose rows [pos_y, pos_y + h) contain line + 16, h being 8 or 16 by
\* bit 2 of LCDC, ordered by pos_x ascending and by OAM index for equal pos_x
C15_OamScanKeepsFirstTen ==
    sprite_pc # "idle" =>
        /\ Len(scanline.sprites) = Cardinality(C15_First)
        /\ Len(scanline.sprites) <= MAX_SPRITES
        /\ \A i \in C15_First : scanline.sprites[C15_Place(i)] = oam[i]

\* the sprite the last read_scanline_sprite_pixel call returned the pixel of
C16_Taken == scanline.sprites[sprite_read.result.sprite_index]

\* C16: a pixel read on a line 0..143 never comes from a sprite with pos_y 0 or
\* 160, nor from a sprite with pos_x 0 or pos_x >= 168; on line 0 a sprite with
\* pos_y 16 (and pos_x > 0) is kept by the scan unless 10 sprites were kept,
\* and a pixel taken from it is read from its row 0
C16_SpritesOffScreen ==
    /\ (sprite_pc = "read" /\ sprite_read.result.found) =>
            /\ C16_Taken.pos_y \notin {0, 160}
            /\ C16_Taken.pos_x # 0
            /\ C16_Taken.pos_x < SCREEN_W + SPRITE_W
            /\ (scanline.line = 0 /\ C16_Taken.pos_y = 16 /\ ~IsFlipY(C16_Taken)) =>
                    sprite_read.result.row = 0
    /\ (sprite_pc # "idle" /\ scanline.line = 0 /\ Len(scanline.sprites) < MAX_SPRITES) =>
            \A i \in 1..OAM_ENTRIES :
                (oam[i].pos_y = 16 /\ oam[i].pos_x > 0) =>
                    \E k \in 1..Len(scanline.sprites) : scanline.sprites[k] = oam[i]

\* C16 witness: on line 0 a pixel was taken from row 0 of a sprite with pos_y 16
\* while the OAM also holds a sprite with pos_y 0, one with pos_y 160 and one
\* with pos_x 168
C16_Witness ==
    /\ sprite_pc = "read"
    /\ sprite_read.result.found
    /\ scanline.line = 0
    /\ C16_Taken.pos_y = 16
    /\ sprite_read.result.row = 0
    /\ GetBit(lcdc, LCD_CONTROL_BIT_SPRITE_SIZE)
    /\ \E i \in 1..OAM_ENTRIES : oam[i].pos_y = 0 /\ oam[i].pos_x > 0
    /\ \E i \in 1..OAM_ENTRIES : oam[i].pos_x = 168

\* the sprites of the list that show at the pixel read: the pixel lies in
\* [pos_x - 8, pos_x), the colour is not 0, and the sprite is not one with the
\* priority flag set while the background colour is not 0
C17_Showing ==
    {k \in 1..Len(scanline.sprites) :
        LET sp == scanline.sprites[k]
        IN  /\ sprite_read.x >= sp.pos_x - 8
            /\ sprite_read.x < sp.pos_x
            /\ SpriteColour(sp, scanline.line, sprite_read.x, lcdc) # 0
            /\ ~(IsBgPriority(sp) /\ sprite_read.pixel_background # 0)}

\* C17: the sprite pass returns the first sprite of the list that shows at the
\* pixel, with its colour and palette, never the colour 0, and returns nothing
\* if no sprite of the list shows
C17_FirstShowingSprite ==
    sprite_pc = "read" =>
        /\ sprite_read.result.found <=> C17_Showing # {}
        /\ sprite_read.result.found =>
                /\ sprite_read.result.sprite_index \in C17_Showing
                /\ \A k \in C17_Showing : sprite_read.result.sprite_index <= k
                /\ sprite_read.result.color_index # 0
                /\ sprite_read.result.color_index =
                       SpriteColour(C16_Taken, scanline.line, sprite_read.x, lcdc)
                /\ sprite_read.result.palette_index = GetPalette(C16_Taken)

\* C17 witness: the pixel was taken from the third sprite of the list or a
\* later one; a sprite before it has the priority flag and is hidden by the
\* background, and another one before it is transparent at the pixel
C17_Witness ==
    /\ sprite_pc = "read"
    /\ sprite_read.result.found
    /\ sprite_read.result.sprite_index >= 3
    /\ sprite_read.pixel_background # 0
    /\ \E k \in 1..(sprite_read.result.sprite_index - 1) :
          /\ SpriteCoversPixel(scanline.sprites[k], sprite_read.x)
          /\ IsBgPriority(scanline.sprites[k])
          /\ SpriteColour(scanline.sprites[k], scanline.line, sprite_read.x, lcdc) # 0
    /\ \E k \in 1..(sprite_read.result.sprite_index - 1) :
          /\ SpriteCoversPixel(scanline.sprites[k], sprite_read.x)
          /\ SpriteColour(scanline.sprites[k], scanline.line, sprite_read.x, lcdc) = 0

----------------------------------------------------------------------------
(* Claims about the frame sequencer, checked under ApuSpec *)

\* C19: the n-th step of the frame sequencer ticks the length timers exactly if
\* n mod 8 is 0, 2, 4 or 6, the frequency sweep exactly if n mod 8 is 2 or 6,
\* and the volume envelope exactly if n mod 8 is 7, also for the steps after
\* the 8-bit counter wrapped past 255
C19_FrameSequencerGating ==
    \A k \in 1..Len(fs_ticks) :
        /\ fs_ticks[k].length <=> (fs_ticks[k].n % 8) \in {0, 2, 4, 6}
        /\ fs_ticks[k].sweep <=> (fs_ticks[k].n % 8) \in {2, 6}
        /\ fs_ticks[k].envelope <=> (fs_ticks[k].n % 8) = 7

\* C19 witness: one update made the steps 255 and 256, the counter wrapped
C19_Witness ==
    /\ Len(fs_ticks) >= 2
    /\ \E k \in 1..Len(fs_ticks) : fs_ticks[k].n = 256 /\ fs_ticks[k].length
    /\ \E k \in 1..Len(fs_ticks) : fs_ticks[k].n = 255 /\ fs_ticks[k].envelope
    /\ fs_next_step < 8

\* C20: after N cycles passed to update while the APU was on, the frame
\* sequencer made N div 8192 steps, however the cycles were split, and fs_clock
\* is below 8192 after every update
C20_StepEvery8192 ==
    /\ fs_steps = apu_cycles \div APU_UPDATE_PERIOD
    /\ fs_clock < APU_UPDATE_PERIOD
    /\ fs_clock = apu_cycles % APU_UPDATE_PERIOD

\* C20 witness: an update of 20000 cycles made three steps at once, after the
\* APU had been off for a while, and left a remainder
C20_Witness ==
    /\ Len(fs_ticks) = 3
    /\ apu_on
    /\ fs_steps > fs_n
    /\ fs_next_step < 250
    /\ fs_clock > 0

----------------------------------------------------------------------------
(* Claims about the channels, checked under ChannelSpec *)

\* C21 (as stated): in every state of every channel an enabled channel has an
\* enabled DAC, also right after a trigger event
C21_EnabledImpliesDac ==
    \A c \in Channels : channel_enabled[c] => dac_enabled[c]

----------------------------------------------------------------------------
(* Claims about the noise generator, checked under NoiseSpec *)

\* the value of reg with bit n set to b
C22_WithBit(reg, n, b) ==
    IF GetBit(reg, n) = (b = 1) THEN reg
    ELSE IF b = 1 THEN reg + 2 ^ n ELSE reg - 2 ^ n

\* the register the claim expects after an iteration
C22_Expected(old, width) ==
    LET new_bit == (IF GetBit(old, 0) THEN 1 ELSE 0) + (IF GetBit(old, 1) THEN 1 ELSE 0) + 1
        nb == new_bit % 2
        with14 == C22_WithBit(old \div 2, 14, nb)
    IN  IF width = 7 THEN C22_WithBit(with14, 6, nb) ELSE with14

\* C22 (as stated): every iteration of the LFSR leaves the old value shifted
\* right by one with bit 14 set to new_bit = bit0 XOR bit1 XOR 1, and in 7-bit
\* mode with bit 6 set to new_bit as well, also after the width was switched
\* without a trigger
C22_LfsrStep ==
    \A k \in 1..Len(lfsr_clocks) :
        lfsr_clocks[k].new = C22_Expected(lfsr_clocks[k].old, lfsr_clocks[k].width)

----------------------------------------------------------------------------
(* Claims about the APU while powered off, checked under ApuSpec *)

\* C23: a step that begins and ends with the APU off leaves the mixer
\* registers, fs_clock and the step counter as they are and delivers no tick;
\* the step that turns the APU off resets the four channels and the mixer
C23_ApuOffIdle ==
    [][ /\ (~apu_on /\ ~apu_on') =>
                /\ nr50' = nr50 /\ nr51' = nr51
                /\ fs_clock' = fs_clock /\ fs_next_step' = fs_next_step
                /\ fs_steps' = fs_steps
                /\ fs_ticks' = << >>
        /\ (apu_on /\ ~apu_on') =>
                /\ apu_reset' = {"mixer", "ch1", "ch2", "ch3", "ch4"}
                /\ nr50' = 0 /\ nr51' = 0 ]_vars

\* C23 witness: the APU was turned off with the mixer registers set and cycles
\* on the frame sequencer clock, and a write to NR51 was then ignored
C23_Witness ==
    /\ ~apu_on
    /\ apu_reset = {"mixer", "ch1", "ch2", "ch3", "ch4"}
    /\ mixer_write = [reg |-> "NR51", value |-> 255]
    /\ nr51 = 0 /\ nr50 = 0
    /\ fs_clock > 0
    /\ fs_steps > 0

----------------------------------------------------------------------------
(* Claims about the audio output, checked under AudioSpec *)

\* the output samples due after t cycles at the rate: the k >= 1 with
\* floor(k * CPU_CLOCK_SPEED / rate) <= t
SamplesDue(t, rate) ==
    LET g == Gcd(CPU_CLOCK_SPEED, rate)
        c == CPU_CLOCK_SPEED \div g
        r == rate \div g
        q == (t + 1) \div c
        m == (t + 1) % c
    IN  IF m = 0 THEN q * r - 1 ELSE q * r + ((m * r - 1) \div c)

\* C24: at a fixed sample rate, the samples completed after the cycles
\* pushed are the k >= 1 with floor(k * 4194304 / rate) at most the cycles
C24_Cadence ==
    (cycles_pushed > 0) => samples_done = SamplesDue(cycles_pushed, sample_rate)

\* the cadence of the code: one more sample, completed with no cycle pushed
C24_CadenceFromZero ==
    (cycles_pushed > 0) => samples_done = 1 + SamplesDue(cycles_pushed, sample_rate)

----------------------------------------------------------------------------
(* Claims about the sample buffer, checked under AudioSpec *)

\* a push completes the buffer
C25_Full == (samples_done' \div SAMPLE_BUFFER_SIZE) > (samples_done \div SAMPLE_BUFFER_SIZE)

\* the samples of the buffer completed last, in the order of completion
C25_InOrder ==
    [i \in 1..SAMPLE_BUFFER_SIZE |->
        SAMPLE_BUFFER_SIZE * ((samples_done' \div SAMPLE_BUFFER_SIZE) - 1) + i]

\* C25: buffer_insert_pos stays within 0..1023 and is the number of samples
\* completed since the buffer was last full; a buffer is sent exactly when
\* 1024 samples were completed and a receiver is attached, and holds them in
\* the order of completion; without a sender, or when the send fails, the
\* buffer is dropped, the sender is detached and filling restarts at 0
C25_BufferHandOff ==
    [][ /\ buffer_insert_pos' \in 0..(SAMPLE_BUFFER_SIZE - 1)
        /\ buffer_insert_pos' = samples_done' % SAMPLE_BUFFER_SIZE
        /\ Len(buffer') = buffer_insert_pos'
        /\ ((C25_Full /\ sender = "open") =>
                (/\ sent_count' = sent_count + 1
                 /\ last_sent' = C25_InOrder
                 /\ sender' = "open"))
        /\ ((C25_Full /\ sender # "open") =>
                (/\ sent_count' = sent_count
                 /\ last_sent' = last_sent
                 /\ sender' = "none"))
        /\ ((~C25_Full) => (sent_count' = sent_count /\ last_sent' = last_sent))
      ]_vars

\* C25 witness: one buffer was sent, the send of the second failed after the
\* receiver was dropped, the sender is detached and filling has restarted
C25_Witness ==
    /\ sent_count = 1
    /\ sender = "none"
    /\ sample_rate = 500
    /\ samples_done > 2 * SAMPLE_BUFFER_SIZE
    /\ buffer_insert_pos > 0
    /\ buffer_insert_pos = samples_done - 2 * SAMPLE_BUFFER_SIZE
    /\ Head(buffer) = 2 * SAMPLE_BUFFER_SIZE + 1

----------------------------------------------------------------------------
(* Claims about the serial port, checked under SerialSpec *)

\* a step completes a transfer: SC bit 7 was set and the step requested the
\* Serial interrupt
C26_Completes == TransferEnabled(sc) /\ serial_irq' = 1

\* C26: a transfer completes only for an SC written with bit 7 and bit 0 set,
\* and exactly 4096 cycles after that write; completing clears bit 7 of SC
\* and requests the interrupt once; without bit 7, SC is left alone and no
\* interrupt is requested
C26_TransferAfter4096 ==
    [][ /\ (C26_Completes =>
                (/\ InternalClock(sc)
                 /\ since_write' = UPDATE_TIME_SERIAL_TRANSFER
                 /\ sc' = sc - 128))
        /\ ((~TransferEnabled(sc) /\ serial_clock' # serial_clock) =>
                (sc' = sc /\ serial_irq' = 0))
      ]_vars

\* the part of C26 that the code keeps: completing a transfer clears bit 7 of
\* SC, and an update without bit 7 changes neither SC nor requests an interrupt
C26_CompletionClearsBit7 ==
    [][ /\ (C26_Completes => sc' = sc - 128)
        /\ ((~TransferEnabled(sc) /\ serial_clock' # serial_clock) =>
                (sc' = sc /\ serial_irq' = 0))
      ]_vars

\* C27: the queue is off after construction; a completed transfer appends SB
\* exactly if the queue is enabled, and clears bit 7 and requests the
\* interrupt either way; take_next returns the oldest byte, or none from an
\* empty queue; take_output returns all bytes in order and empties the queue
C27_OutputQueue ==
    [][ /\ (C26_Completes =>
                (/\ output_queue' = IF output_queue_enabled
                                    THEN Append(output_queue, sb) ELSE output_queue
                 /\ ~TransferEnabled(sc')))
        /\ ((serial_clock' # serial_clock /\ ~C26_Completes) => output_queue' = output_queue)
        /\ (taken'.op = "take_next" =>
                IF output_queue = << >>
                THEN taken'.result = << >> /\ output_queue' = << >>
                ELSE output_queue = taken'.result \o output_queue' /\ Len(taken'.result) = 1)
        /\ (taken'.op = "take_output" =>
                (taken'.result = output_queue /\ output_queue' = << >>))
      ]_vars

\* C27 witness: two transfers completed with the queue enabled, and
\* take_output returned their bytes in order and emptied the queue
C27_Witness ==
    /\ taken = [op |-> "take_output", result |-> << 65, 66 >>]
    /\ output_queue = << >>
    /\ output_queue_enabled

----------------------------------------------------------------------------
(* Claims about the opcode tables, checked under OpcodeSpec *)

\* the undefined opcodes of the base table
C28_Undefined == {211, 219, 221, 227, 228, 235, 236, 237, 244, 252, 253}

\* C28: running one of the eleven undefined opcodes of the base table does
\* not panic
C28_InvalidOpcodeDoesNotPanic ==
    (op_table = "base" /\ op_code \in C28_Undefined) => op_result # "panic"

\* the rest of C28: every other entry of the base table and every entry of
\* the extended table is a defined instruction
C28_OtherEntriesDefined ==
    (op_table = "extended" \/ (op_table = "base" /\ op_code \notin C28_Undefined))
        => op_result # "panic"

----------------------------------------------------------------------------
(* Claims about initialize, checked under BootSpec *)

\* the registers of a classic Game Boy after its boot ROM
C29_DmgRegisters(f) ==
    [a |-> 1, f |-> f, b |-> 0, c |-> 19, d |-> 0, e |-> 216, h |-> 1, l |-> 77,
     sp |-> 65534, pc |-> 256]

\* C29: initialize without boot ROM on the DMG sets A = 0x01, BC = 0x0013,
\* DE = 0x00D8, HL = 0x014D, SP = 0xFFFE, PC = 0x0100 and F = 0xB0 for a header
\* checksum other than zero, F = 0x80 for zero; on every device and emulation
\* the low four bits of F are zero; with a boot ROM initialize sets PC to 0
\* and nothing else
C29_Initialize ==
    [][ initialized' =>
          /\ ((~has_boot_rom /\ cfg_device = "GameBoyDmg") =>
                 cpu' = C29_DmgRegisters(IF header_checksum # 0 THEN 176 ELSE 128))
          /\ ((~has_boot_rom) => (cpu'.f % 16 = 0))
          /\ (has_boot_rom => (cpu' = [cpu EXCEPT !.pc = 0]))
      ]_vars

\* C29 witness: a DMG without boot ROM and with a header checksum other than
\* zero was initialized, and F is 0xB0
C29_Witness ==
    /\ initialized
    /\ ~has_boot_rom
    /\ cfg_device = "GameBoyDmg"
    /\ header_checksum = 231
    /\ cpu.f = 176
    /\ cpu.pc = 256

----------------------------------------------------------------------------
(* Claims about the Builder, checked under BuilderSpec *)

\* C30: finish on a builder with a cartridge that requires the Game Boy Color
\* and with the device type set to the DMG returns the error UnsupportedFeature
C30_CgbOnlyOnDmgFails ==
    (b_result # NotBuilt /\ b_cartridge = "Required" /\ b_device_type = "GameBoyDmg")
        => (b_result.status = "Err" /\ b_result.error = "UnsupportedFeature")

----------------------------------------------------------------------------
(* Claims about the memory data, checked under MemDataSpec *)

\* C31: read_from_bytes fails with InvalidFileSize of the length given and
\* the size exactly if the two differ; a failure leaves the data as it was, a
\* success stores the bytes and keeps the size; try_from of a fixed size fails
\* with InvalidFileSize exactly if the length of the slice is not SIZE
C31_InvalidFileSize ==
    [][ /\ ((md_result' # md_result /\ md_result'.result # NoResult) =>
              (/\ (md_result'.result.status = "Err") = (Len(md_result'.bytes) # Len(md_data))
               /\ (md_result'.result.status = "Err" =>
                      (/\ md_result'.result = InvalidFileSize(Len(md_result'.bytes), Len(md_data))
                       /\ md_data' = md_data))
               /\ (md_result'.result.status = "Ok" =>
                      (md_data' = md_result'.bytes /\ Len(md_data') = Len(md_data)))))
        /\ ((md_fixed' # md_fixed /\ md_fixed' # NoFixedSize) =>
              (/\ (md_fixed'.result.status = "Err") = (Len(md_fixed'.value) # md_fixed'.size)
               /\ (md_fixed'.result.status = "Err" =>
                      md_fixed'.result = InvalidFileSize(Len(md_fixed'.value), md_fixed'.size))
               /\ (md_fixed'.result.status = "Ok" => md_fixed'.arr = md_fixed'.value)))
      ]_vars

\* C31 witness: a read of three bytes succeeded, and a read of two bytes into
\* the three then failed and left them
C31_Witness ==
    /\ md_result = [bytes |-> << 0, 0 >>, result |-> InvalidFileSize(2, 3)]
    /\ md_data = << 0, 255, 0 >>

----------------------------------------------------------------------------
(* Claims about the stages of an opcode, checked under StageSpec *)

\* C32: within one instruction every read of an I/O register returns the
\* value the instruction wrote last, or the value the register had when the
\* instruction began if it wrote none: what the peripherals do to the
\* register shows only after the instruction
C32_ReadsSeeOwnWritesOnly ==
    [][ (sg_pc = "proc" /\ sg_reads' = sg_reads + 1)
            => sg_read' = {ExpectedRead(sg_written, sg_begin)} ]_vars

----------------------------------------------------------------------------
(* Claims about the clocking of the noise generator, checked under
   NoiseClockSpec *)

\* the period NR43 asks for: divisor << shift, the divisor 8 for the divider
\* code 0 and code * 16 for the codes 1..7
C33_Period(nr3) ==
    (IF nr3 % 8 = 0 THEN 8 ELSE (nr3 % 8) * 16) * 2 ^ ((nr3 \div 16) % 16)

\* C33: the reload period of the LFSR is divisor << shift, which is 8 or
\* more; every update call ends, after at most one pass of its loop per LFSR
\* iteration and one for the rest of the cycles; and after a
\* trigger, with NR43 left alone, the LFSR has been stepped floor(N / period)
\* times when N cycles have been passed to update, however they are split
C33_LfsrClocking ==
    /\ ResetTimer(frequency_divider, frequency_shift) = C33_Period(noise_clock.nr3)
    /\ ResetTimer(frequency_divider, frequency_shift) >= 8
    /\ noise_clock.last_passes <= noise_clock.last_steps + 1
    /\ noise_clock.last_passes <= noise_clock.last_cycles + 1
    /\ Followed =>
          (/\ noise_clock.period = C33_Period(noise_clock.nr3)
           /\ noise_clock.steps = noise_clock.cycles \div noise_clock.period)

\* C33 witness: 43 cycles in updates of 3 and of 20 cycles after a trigger at
\* the period 16 have stepped the LFSR twice
C33_Witness ==
    /\ Followed
    /\ noise_clock.period = 16
    /\ noise_clock.cycles = 43
    /\ noise_clock.steps = 2

----------------------------------------------------------------------------
(* Claims about the modes, the lines and the LCD buffer, checked under
   PpuSpec *)

\* the palettes and the 2-bit pixels process_draw_line looks up
C35_Palettes == {0, 27, 228, 255}

C35_ModeOfLine ==
    /\ ly \in 0..153
    /\ (ppu_mode = "VBlank") <=> (ly \in 144..153)
    /\ (ppu_mode \in {"OamScan", "DrawLine", "HBlank"}) <=> (ly \in 0..143)

C35_Draw ==
    (ppu_drawn' > 0) =>
        (/\ ppu_mode = "DrawLine"
         /\ ly <= 143
         /\ \A p \in current_line_pixel .. (current_line_pixel + ppu_drawn' - 1) :
               /\ p < SCREEN_W
               /\ SetPixelIndex(p, ly) < SCREEN_W * SCREEN_H
         /\ \A palette \in C35_Palettes, pixel \in 0..3 :
               SetPixelValue(PixelColor(palette, pixel)) \in 0..3)

\* C35: the mode is VBlank exactly on the lines 144..153 and one of OamScan,
\* DrawLine and HBlank exactly on the lines 0..143; every pixel written goes to
\* a column below 160 of a line up to 143, inside the LCD buffer, with a value
\* in 0..3; and pixels are written only by an update in the mode DrawLine
C35_ModesLinesPixels == []C35_ModeOfLine /\ [][C35_Draw]_vars

\* C35 witness: the last pixels of line 143 have been written
C35_Witness == ppu_drawn > 0 /\ ly = 143 /\ current_line_pixel = SCREEN_W /\ ppu_mode = "HBlank"

----------------------------------------------------------------------------
(* Claims about the 8-bit arithmetic on sprites, checked under
   SpriteArithSpec *)

----------------------------------------------------------------------------
(* Claims about the writes to NR52, checked under ApuSpec *)

\* C37: a write to NR52 whose bit 7 equals apu_on changes nothing: nothing is
\* reset and the frame sequencer keeps its step; a write resets the step to 0
\* only when it switches the APU on, and resets the channels and the mixer only
\* when it switches the APU off; so a second write of the same value changes
\* nothing
C37_Nr52Idempotent ==
    [][ (nr52_write' # nr52_write) =>
          (/\ nr52_write'.was_on = apu_on
           /\ apu_on' = nr52_write'.enabled
           /\ (nr52_write'.enabled = apu_on =>
                  (/\ UNCHANGED << apu_on, fs_next_step, fs_clock, nr50, nr51 >>
                   /\ apu_reset' = {}))
           /\ ((~apu_on /\ nr52_write'.enabled) =>
                  (fs_next_step' = 0 /\ apu_reset' = {} /\ UNCHANGED << nr50, nr51 >>))
           /\ ((apu_on /\ ~nr52_write'.enabled) =>
                  (/\ apu_reset' = ApuResetUnits
                   /\ nr50' = MixerResetValue /\ nr51' = MixerResetValue
                   /\ UNCHANGED fs_next_step))
           /\ ((nr52_write'.enabled = nr52_write.enabled /\ nr52_write.enabled = apu_on) =>
                  UNCHANGED << apu_on, fs_next_step, fs_clock, nr50, nr51 >>))
      ]_vars

\* C37 witness: the second of two writes that switch the APU on, with the
\* frame sequencer at a step other than 0 and the mixer registers written
C37_Witness ==
    /\ nr52_write.enabled /\ nr52_write.was_on /\ apu_on
    /\ nr52_write.flip
    /\ fs_next_step # 0
    /\ fs_steps > 0
    /\ nr50 # 0
    /\ apu_reset = {}

----------------------------------------------------------------------------
(* Claims about the time base of the audio output, checked under AudioSpec *)

\* C38: every pass of the loop of push begins with time_passed at or below
\* next_sample_time; every completed sample leaves next_sample_time above
\* time_passed, so the loop makes at most one pass per completed sample and
\* one more and ends; and neither counter ever exceeds CPU_CLOCK_SPEED plus
\* one sample period
C38_TimeBase ==
    /\ time_passed <= next_sample_time
    /\ ~push_obs.underflow
    /\ ~push_obs.stalled
    /\ push_obs.passes <= push_obs.samples + 1
    /\ push_obs.most <= CPU_CLOCK_SPEED + CPU_CLOCK_SPEED \div sample_rate
    /\ next_sample_time <= CPU_CLOCK_SPEED + CPU_CLOCK_SPEED \div sample_rate

\* C38 witness: a push at the rate 500 during which the counters passed
\* CPU_CLOCK_SPEED and were wrapped
C38_Witness ==
    /\ sample_rate = 500
    /\ push_obs.most > CPU_CLOCK_SPEED
    /\ push_obs.samples > 1
    /\ next_sample_time < CPU_CLOCK_SPEED
    /\ time_passed < next_sample_time

----------------------------------------------------------------------------
----------------------------------------------------------------------------
(* Claims about the emulation type of a build, checked under BuilderSpec *)

\* the device types able to run in the colour mode
ColourDevices == {"GameBoyColor", "GameBoyAdvance", "GameBoyAdvanceSP"}

\* C39: a build has the emulation type GBC only for a device of
\* GameBoyColor, GameBoyAdvance or GameBoyAdvanceSP with a cartridge that
\* supports CGB; the devices GameBoyDmg, GameBoyPocket, SuperGameBoy and
\* SuperGameBoy2, and a build without a cartridge, have the emulation type
\* DMG; a device type set explicitly is the device of the build, and without
\* a device type and a cartridge the device is GameBoyDmg
C39_GbcOnlyOnColourDevices ==
    (b_result # NotBuilt) =>
        /\ (b_result.emulation = "GBC") =>
              (/\ b_result.device \in ColourDevices
               /\ b_cartridge # "none"
               /\ SupportsCgb(b_cartridge))
        /\ (b_result.device \in DeviceTypes \ ColourDevices) =>
              (b_result.emulation = "DMG")
        /\ (b_cartridge = "none") => (b_result.emulation = "DMG")
        /\ (b_device_type # "none") => (b_result.device = b_device_type)
        /\ (b_device_type = "none" /\ b_cartridge = "none") =>
              (b_result.device = "GameBoyDmg")

\* the part of C39 about the device of the build and about a build without a
\* cartridge
C39_DeviceAndNoCartridge ==
    (b_result # NotBuilt) =>
        /\ (b_result.emulation = "GBC") =>
              (b_cartridge # "none" /\ SupportsCgb(b_cartridge))
        /\ (b_result.device = "GameBoyDmg") => (b_result.emulation = "DMG")
        /\ (b_cartridge = "none") => (b_result.emulation = "DMG")
        /\ (b_device_type # "none") => (b_result.device = b_device_type)
        /\ (b_device_type = "none" /\ b_cartridge = "none") =>
              (b_result.device = "GameBoyDmg")

----------------------------------------------------------------------------
----------------------------------------------------------------------------
(* Claims about the entries of the base opcode table, checked under
   OpcodeSpec *)

\* the handler that loads the immediate byte into A
C40_LoadImmediateIntoA == "ld_a_u8"

\* the entry of the opcode run has a length of 1 to 3 bytes
C40_Bytes ==
    (op_table = "base" /\ op_result = "returned") =>
        (BaseEntry(op_code).bytes \in 1..3)

\* the entry of the opcode run has a cycle count that is a positive multiple
\* of 4, and NOP has 4 cycles
C40_Cycles ==
    (op_table = "base" /\ op_result = "returned") =>
        /\ BaseEntry(op_code).cycles > 0
        /\ BaseEntry(op_code).cycles % 4 = 0
        /\ (op_code = 0) => (BaseEntry(op_code).cycles = 4)

\* the handler of the opcode run is the handler of no entry with another
\* mnemonic, and the handler of 0x3E is the one loading the immediate into A
C40_Handler ==
    (op_table = "base" /\ op_result = "returned") =>
        /\ \A other \in Opcodes \ BaseInvalid :
              (BaseEntry(other).proc = BaseEntry(op_code).proc)
                  => (BaseEntry(other).name = BaseEntry(op_code).name)
        /\ (op_code = 62) =>
              (/\ BaseEntry(op_code).proc = C40_LoadImmediateIntoA
               /\ BaseEntry(op_code).proc # BaseEntry(46).proc)

\* C40: every entry of the base opcode table that is run is bound to the
\* handler its mnemonic names, has a length of 1 to 3 bytes and a cycle
\* count that is a positive multiple of 4; 0x3E (LD A, u8) is bound to the
\* handler loading the immediate into A, not to that of 0x2E (LD L, u8), and
\* 0x00 (NOP) has 4 cycles
C40_TableEntries == C40_Bytes /\ C40_Cycles /\ C40_Handler

\* the entries of the base table other than 0x00 and 0x3E: their cycle
\* counts are positive multiples of 4 and no two of them with different
\* mnemonics share a handler
C40_OtherEntries ==
    (op_table = "base" /\ op_result = "returned" /\ op_code \notin {0, 62}) =>
        /\ BaseEntry(op_code).cycles > 0
        /\ BaseEntry(op_code).cycles % 4 = 0
        /\ \A other \in Opcodes \ (BaseInvalid \cup {62}) :
              (BaseEntry(other).proc = BaseEntry(op_code).proc)
                  => (BaseEntry(other).name = BaseEntry(op_code).name)

\* the indices of BaseInvalid are those of the entries OPCODE_INVALID
C40_InvalidEntries ==
    \A opcode \in Opcodes : (opcode \in BaseInvalid) <=> (BaseEntry(opcode) = OPCODE_INVALID)

====
